---- MODULE Spec2Model ----
(***************************************************************************)
(* A model of the layout and compositing core of stui (src/inc/stui.h):    *)
(* the two linear containers HorizontalBox / VerticalBox (size queries,    *)
(* size negotiation, child placement) and the canvas utilities they use    *)
(* (makeBuffer, copyBox, fillColour, drawText, showTooSmallMessage), the    *)
(* text wrapping (wrapText, drawTextWrapped), the keyboard input           *)
(* (getQueuedKeyEvents, compare, processShortcuts, getTextCharacters), the *)
(* transcoding of a frame into the bytes written to the terminal           *)
(* (Renderer::render), the resize flag of the terminal on Linux, and the   *)
(* Page of src/inc/stui_extensions.h: its focus, its registry of           *)
(* components and its checkInput.                                          *)
(*                                                                         *)
(* Coordinates are records [x, y].  A Tixel is a record                    *)
(* [character, colour].  A canvas is a function from the C index           *)
(* 0 .. w*h to Tixels (makeBuffer allocates one terminator cell past the    *)
(* end).  Pointers are small naturals, nullptr is 0, heap[p] is the array   *)
(* that pointer p designates.                                              *)
(***************************************************************************)
EXTENDS Integers, Sequences, FiniteSets, TLC

VARIABLES
    box,               \* class of the container: "HorizontalBox" or "VerticalBox"
    children,          \* its `children`: what each child's getMinSize / getMaxSize return
    size,              \* the `size` argument of render
    output_buffer,     \* the `output_buffer` argument of render (a pointer)
    heap,              \* pointer -> allocated Tixel array
    extent,            \* pointer -> the Coordinate size its array was allocated for
    pc,                \* position inside the caller / render
    min_sizes,         \* min_widths  / min_heights
    max_sizes,         \* max_widths  / max_heights
    calculated_sizes,  \* calculated_widths / calculated_heights
    budget,
    changed,
    i,                 \* loop index (1-based here, 0-based in the source)
    offset,            \* x_offset / y_offset
    rendered,          \* the children whose render has been invoked, in call order
    lastRender,        \* arguments of the most recent render call of a child or root component
    box_min,           \* result of the container's getMinSize
    box_max,           \* result of the container's getMaxSize
    request,           \* arguments of the most recent call of a canvas utility
    before,            \* the heap, or the page, as it was when that call was made
    input_text,        \* the `text` argument of wrapText / drawTextWrapped
    max_width,         \* the `max_width` argument of wrapText
    result,            \* the lines wrapText returned
    input_buffer,      \* the bytes one read() of the terminal delivered
    events,            \* what getQueuedKeyEvents returned for them
    reads,             \* the indices at which it read `buffer` and `linux_keymap`
    position,          \* the index `i` of its for loop while the loop runs
    shortcuts,         \* the shortcut bindings handed to processShortcuts
    key_events,        \* `key_events` after processShortcuts
    calls,             \* the callbacks invoked: which shortcut, for which event, in call order
    focused_component, \* the `focused_component` argument of Renderer::handleInput
    delivered,         \* the arguments of its handleInput calls, in call order
    accepted,          \* for each of these calls, whether the component took the key
    root_component,    \* the `root_component` argument of Renderer::render
    output,            \* the string `output` of Renderer::render
    current_page,      \* the static `current_page`: nullptr or the address of the page
    focusable_component_sequence,  \* the page's `focusable_component_sequence`
    focused_component_index,       \* the page's `focused_component_index`
    focused,           \* the field `focused` of each component
    enabled,           \* what isFocusable() of each component returns
    components,        \* the page's registry `components`: a function from names to components
    root,              \* the page's `root`
    tree,              \* what getAllChildren() of each component returns
    deleted,           \* the components that were handed to `delete`
    remainders,        \* what the last destroyAllComponents returned
    iterations,        \* how often the body of the loop of the last advanceFocus ran
    linux_resized_triggered,  \* the static flag `linux_resized_triggered`
    resized,           \* the local `resized` of Terminal::isTerminalResized
    signals,           \* how many SIGWINCH signals were delivered
    unreported,        \* how many of them no call has reported yet: none that was in
                       \* progress then, or began later, has returned true
    returned,          \* what the calls of isTerminalResized returned, in order
    output_target      \* the bytes Renderer::render wrote to OUTPUT_TARGET, from the frame's
                       \* first colour commands on

vars == << box, children, size, output_buffer, heap, extent, pc, min_sizes, max_sizes,
           calculated_sizes, budget, changed, i, offset, rendered, lastRender,
           box_min, box_max, request, before, input_text, max_width, result,
           input_buffer, events, reads, position, shortcuts, key_events, calls,
           focused_component, delivered, accepted, root_component, output, output_target, current_page,
           focusable_component_sequence, focused_component_index, focused, enabled,
           components, root, tree, deleted, remainders, iterations,
           linux_resized_triggered, resized, signals, unreported, returned >>

\* the variables of the text wrapping
wrapVars == << input_text, max_width, result >>

\* the variables of the keyboard input
inputVars == << input_buffer, events, reads, position, shortcuts, key_events, calls, focused_component,
               delivered, accepted >>

\* the variables of the transcoding of a frame
encodeVars == << root_component, output, output_target >>

\* the variables of a Page
focusVars == << current_page, focusable_component_sequence, focused_component_index, focused,
               enabled, iterations >>

\* the variables of the registry of a Page
registryVars == << components, root, tree, deleted, remainders >>

pageVars == << focusVars, registryVars >>

\* the variables of the resize notification
resizeVars == << linux_resized_triggered, resized, signals, unreported, returned >>

\* what the layout and the canvas utilities leave alone
restVars == << wrapVars, inputVars, encodeVars, pageVars, resizeVars >>

NoWrap ==
    /\ input_text = << >>
    /\ max_width = 1
    /\ result = << >>

\* nothing read yet
NoReads == [buffer |-> { }, linux_keymap |-> { }]

NoInput ==
    /\ input_buffer = << >>
    /\ events = << >>
    /\ reads = NoReads
    /\ position = 0
    /\ shortcuts = << >>
    /\ key_events = << >>
    /\ calls = << >>
    /\ focused_component = 0
    /\ delivered = << >>
    /\ accepted = << >>

NoEncode ==
    /\ root_component = 0
    /\ output = << >>
    /\ output_target = << >>

NoPage ==
    /\ current_page = 0
    /\ focusable_component_sequence = << >>
    /\ focused_component_index = 0
    /\ focused = << >>
    /\ enabled = << >>
    /\ iterations = 0
    /\ components = << >>
    /\ root = 0
    /\ tree = << >>
    /\ deleted = { }
    /\ remainders = << >>

NoResize ==
    /\ linux_resized_triggered = TRUE
    /\ resized = FALSE
    /\ signals = 0
    /\ unreported = 0
    /\ returned = << >>

RestIdle == NoWrap /\ NoInput /\ NoEncode /\ NoPage /\ NoResize

----------------------------------------------------------------------------
(* Bounds of the model *)

MaxChildren == 2
MaxMin == 2
MaxMax == 2
MaxAvail == 3
MaxCross == 1
CanvasWidth == 3
CanvasHeight == 2
MaxText == 4
MaxWidth == 3
MaxTokens == 2
MaxShortcuts == 2
MaxCells == 4
MaxComponents == 3
MaxRegistered == 3
MaxSignals == 3
MaxCalls == 4

(* Program constants *)

nullptr == 0
SpaceChar == 32
DefaultColour == 31
HighlightedColour == 241
UnfocusedColour == 225

----------------------------------------------------------------------------
(* Coordinates *)

Coordinate(a, b) == [x |-> a, y |-> b]

Min(a, b) == IF a < b THEN a ELSE b
Max(a, b) == IF a > b THEN a ELSE b
Abs(a) == IF a < 0 THEN -a ELSE a

\* C++ integer division truncates toward zero
CDiv(a, b) == IF a >= 0 THEN a \div b ELSE -((-a) \div b)

\* The packing axis is x for HorizontalBox and y for VerticalBox
Pack(kind, c) == IF kind = "HorizontalBox" THEN c.x ELSE c.y
Cross(kind, c) == IF kind = "HorizontalBox" THEN c.y ELSE c.x
PackCross(kind, p, c) == IF kind = "HorizontalBox" THEN Coordinate(p, c) ELSE Coordinate(c, p)

RECURSIVE SumSeq(_)
SumSeq(s) == IF s = << >> THEN 0 ELSE Head(s) + SumSeq(Tail(s))

----------------------------------------------------------------------------
(* Tixels and canvases *)

Tixel(c, col) == [character |-> c, colour |-> col]

NoArray == << >>

\* Tixel::operator=(char): only the character is assigned
AssignChar(t, c) == [t EXCEPT !.character = c]

\* faulty variant of makeBuffer: a size of zero is not refused
makeBufferZeroAllowed(buffer_size) ==
    IF buffer_size.x < 0 \/ buffer_size.y < 0 THEN NoArray
    ELSE [k \in 0 .. (buffer_size.x * buffer_size.y) |->
             IF k < buffer_size.x * buffer_size.y
             THEN Tixel(SpaceChar, DefaultColour)
             ELSE Tixel(0, DefaultColour)]

\* Utility::makeBuffer: the array it allocates, or NoArray when it returns nullptr
makeBuffer(buffer_size) ==
    IF buffer_size.x <= 0 \/ buffer_size.y <= 0 THEN NoArray
    ELSE [k \in 0 .. (buffer_size.x * buffer_size.y) |->
             IF k < buffer_size.x * buffer_size.y
             THEN Tixel(SpaceChar, DefaultColour)
             ELSE Tixel(0, DefaultColour)]

\* the pointer makeBuffer returns when its array is placed at address p
PointerTo(array, p) == IF array = NoArray THEN nullptr ELSE p


----------------------------------------------------------------------------
(* Text placement *)

long_msg == << 32, 91, 32, 97, 114, 101, 97, 32, 116, 111, 111, 32, 115, 109, 97, 108, 108, 32, 93, 32 >>
short_msg == << 91, 46, 46, 46, 93 >>
NewLine == 10

\* the loop of Utility::drawText from character index k (0-based) on
RECURSIVE drawTextLoop(_, _, _, _, _, _)
drawTextLoop(text, k, text_origin, max_size, array, buffer_size) ==
    IF k >= Len(text) THEN array
    ELSE IF text_origin.x + k < 0
         THEN drawTextLoop(text, k + 1, text_origin, max_size, array, buffer_size)
    ELSE IF text_origin.x + k >= buffer_size.x \/ k >= max_size.x THEN array
    ELSE IF text_origin.y < 0 \/ text_origin.y >= buffer_size.y THEN array
    ELSE IF text[k + 1] = NewLine THEN array
    ELSE drawTextLoop(text, k + 1, text_origin, max_size,
             [array EXCEPT ![(text_origin.x + k) + (text_origin.y * buffer_size.x)] =
                               AssignChar(@, text[k + 1])],
             buffer_size)

\* Utility::drawText on heap h; `buffer` is a pointer
drawText(h, text, text_origin, max_size, buffer, buffer_size) ==
    IF buffer = nullptr THEN h
    ELSE IF buffer_size.x <= 0 \/ buffer_size.y <= 0 THEN h
    ELSE [h EXCEPT ![buffer] = drawTextLoop(text, 0, text_origin, max_size, @, buffer_size)]

\* faulty variant of showTooSmallMessage: the horizontal origin is not halved
showTooSmallMessageUncentred(h, buffer_size, buffer) ==
    IF buffer_size.y = 0 THEN h
    ELSE IF buffer_size.x >= Len(long_msg)
         THEN drawText(h, long_msg,
                       Coordinate(buffer_size.x - Len(long_msg), CDiv(buffer_size.y, 2)),
                       Coordinate(buffer_size.x, 1), buffer, buffer_size)
         ELSE drawText(h, short_msg,
                       Coordinate(buffer_size.x - Len(short_msg), CDiv(buffer_size.y, 2)),
                       Coordinate(buffer_size.x, 1), buffer, buffer_size)

\* Utility::showTooSmallMessage.  buffer_size.x - msg.size() is computed in size_t
\* and cast back to int, which yields the signed difference; the division
\* truncates toward zero.
showTooSmallMessage(h, buffer_size, buffer) ==
    IF buffer_size.y = 0 THEN h
    ELSE IF buffer_size.x >= Len(long_msg)
         THEN drawText(h, long_msg,
                       Coordinate(CDiv(buffer_size.x - Len(long_msg), 2), CDiv(buffer_size.y, 2)),
                       Coordinate(buffer_size.x, 1), buffer, buffer_size)
         ELSE drawText(h, short_msg,
                       Coordinate(CDiv(buffer_size.x - Len(short_msg), 2), CDiv(buffer_size.y, 2)),
                       Coordinate(buffer_size.x, 1), buffer, buffer_size)

----------------------------------------------------------------------------
(* Clipped rectangular copy *)

\* cell-by-cell copy in ascending address order inside one array
RECURSIVE CopyAscending(_, _, _, _, _)
CopyAscending(array, d, s, k, n) ==
    IF k >= n THEN array
    ELSE CopyAscending([array EXCEPT ![d + k] = array[s + k]], d, s, k + 1, n)

\* cell-by-cell copy in descending address order inside one array
RECURSIVE CopyDescending(_, _, _, _)
CopyDescending(array, d, s, k) ==
    IF k < 0 THEN array
    ELSE CopyDescending([array EXCEPT ![d + k] = array[s + k]], d, s, k - 1)

\* memcpy(dst + d, src + s, n * sizeof(Tixel)): the heaps it can leave.
\* Between different arrays, or between disjoint or identical ranges of one
\* array, the result is the copy.  Partly overlapping ranges are undefined
\* behaviour of memcpy: an implementation copies in ascending or in
\* descending order, so both results are possible.
memcpy(h, dst, d, src, s, n) ==
    IF dst # src
    THEN { [h EXCEPT ![dst] = [k \in DOMAIN h[dst] |->
                                  IF k >= d /\ k < d + n THEN h[src][s + (k - d)]
                                  ELSE h[dst][k]]] }
    ELSE IF d = s \/ d + n <= s \/ s + n <= d
    THEN { [h EXCEPT ![dst] = CopyAscending(@, d, s, 0, n)] }
    ELSE { [h EXCEPT ![dst] = CopyAscending(@, d, s, 0, n)],
           [h EXCEPT ![dst] = CopyDescending(@, d, s, n - 1)] }

\* faulty variant of copyBoxRows: the destination row is located with the
\* width of the source
RECURSIVE copyBoxRowsSourceStride(_, _, _, _, _, _, _, _, _)
copyBoxRowsSourceStride(hs, y, src, src_size, src_offset, area_size, dst, dst_size, dst_offset) ==
    IF y >= area_size.y THEN hs
    ELSE copyBoxRowsSourceStride(
             UNION { memcpy(h, dst, dst_offset.x + ((y + dst_offset.y) * src_size.x),
                            src, src_offset.x + ((y + src_offset.y) * src_size.x),
                            area_size.x) : h \in hs },
             y + 1, src, src_size, src_offset, area_size, dst, dst_size, dst_offset)

\* the row loop of Utility::copyBox from row y on, over a set of possible heaps
RECURSIVE copyBoxRows(_, _, _, _, _, _, _, _, _)
copyBoxRows(hs, y, src, src_size, src_offset, area_size, dst, dst_size, dst_offset) ==
    IF y >= area_size.y THEN hs
    ELSE copyBoxRows(
             UNION { memcpy(h, dst, dst_offset.x + ((y + dst_offset.y) * dst_size.x),
                            src, src_offset.x + ((y + src_offset.y) * src_size.x),
                            area_size.x) : h \in hs },
             y + 1, src, src_size, src_offset, area_size, dst, dst_size, dst_offset)

\* faulty variant of copyBox: a rectangle that overflows a canvas is cut down to
\* the part that fits instead of being refused
copyBoxClamped(h, src, src_size, src_offset, area_size, dst, dst_size, dst_offset) ==
    LET fit == Coordinate(
                   Min(area_size.x, Min(src_size.x - src_offset.x, dst_size.x - dst_offset.x)),
                   Min(area_size.y, Min(src_size.y - src_offset.y, dst_size.y - dst_offset.y)))
    IN  IF src = nullptr \/ dst = nullptr THEN {h}
        ELSE IF src_offset.x < 0 \/ src_offset.y < 0 THEN {h}
        ELSE IF dst_offset.x < 0 \/ dst_offset.y < 0 THEN {h}
        ELSE IF fit.x <= 0 \/ fit.y <= 0 THEN {h}
        ELSE copyBoxRows({h}, 0, src, src_size, src_offset, fit, dst, dst_size, dst_offset)

\* Utility::copyBox on heap h: the set of heaps it can leave
copyBox(h, src, src_size, src_offset, area_size, dst, dst_size, dst_offset) ==
    IF src = nullptr \/ dst = nullptr THEN {h}
    ELSE IF area_size.x <= 0 \/ area_size.y <= 0 THEN {h}
    ELSE IF src_offset.x < 0 \/ src_offset.y < 0 THEN {h}
    ELSE IF dst_offset.x < 0 \/ dst_offset.y < 0 THEN {h}
    ELSE IF src_offset.x + area_size.x > src_size.x \/ src_offset.y + area_size.y > src_size.y THEN {h}
    ELSE IF dst_offset.x + area_size.x > dst_size.x \/ dst_offset.y + area_size.y > dst_size.y THEN {h}
    ELSE copyBoxRows({h}, 0, src, src_size, src_offset, area_size, dst, dst_size, dst_offset)

----------------------------------------------------------------------------
(* Colour fill *)

\* buffer[k].colour = colour.  A store past the array is kept as a stray cell,
\* so that it can be told from no store at all.
StoreColour(array, k, colour) ==
    IF k \in DOMAIN array THEN [array EXCEPT ![k].colour = colour]
    ELSE (k :> Tixel(SpaceChar, colour)) @@ array

\* faulty variant of fillColourColumns: the loop does not stop at the right
\* edge of the canvas
RECURSIVE fillColourColumnsNoBreak(_, _, _, _, _, _, _)
fillColourColumnsNoBreak(array, x, y, colour, origin, fill_size, buffer_size) ==
    IF x >= fill_size.x THEN array
    ELSE IF x + origin.x < 0
         THEN fillColourColumnsNoBreak(array, x + 1, y, colour, origin, fill_size, buffer_size)
    ELSE fillColourColumnsNoBreak(
             StoreColour(array, x + origin.x + ((y + origin.y) * buffer_size.x), colour),
             x + 1, y, colour, origin, fill_size, buffer_size)

\* the inner loop of Utility::fillColour on row y, from column x on
RECURSIVE fillColourColumns(_, _, _, _, _, _, _)
fillColourColumns(array, x, y, colour, origin, fill_size, buffer_size) ==
    IF x >= fill_size.x THEN array
    ELSE IF x + origin.x < 0
         THEN fillColourColumns(array, x + 1, y, colour, origin, fill_size, buffer_size)
    ELSE IF x + origin.x >= buffer_size.x THEN array
    ELSE fillColourColumns(
             StoreColour(array, x + origin.x + ((y + origin.y) * buffer_size.x), colour),
             x + 1, y, colour, origin, fill_size, buffer_size)

\* the outer loop of Utility::fillColour from row y on
RECURSIVE fillColourRows(_, _, _, _, _, _)
fillColourRows(array, y, colour, origin, fill_size, buffer_size) ==
    IF y >= fill_size.y THEN array
    ELSE IF y + origin.y < 0
         THEN fillColourRows(array, y + 1, colour, origin, fill_size, buffer_size)
    ELSE IF y + origin.y >= buffer_size.y THEN array
    ELSE fillColourRows(
             fillColourColumns(array, 0, y, colour, origin, fill_size, buffer_size),
             y + 1, colour, origin, fill_size, buffer_size)

\* Utility::fillColour on heap h; `buffer` is a pointer
fillColour(h, colour, origin, fill_size, buffer, buffer_size) ==
    IF fill_size.x <= 0 \/ fill_size.y <= 0 THEN h
    ELSE IF buffer = nullptr THEN h
    ELSE IF buffer_size.x <= 0 \/ buffer_size.y <= 0 THEN h
    ELSE [h EXCEPT ![buffer] = fillColourRows(@, 0, colour, origin, fill_size, buffer_size)]

----------------------------------------------------------------------------
(* Text wrapping.  A string is a sequence of character codes; positions are *)
(* 0-based as in the source, so the character at position k is s[k + 1].    *)

\* string::npos, the "not found" / "to the end" position
npos == -1

\* text.find(ch, start)
RECURSIVE find(_, _, _)
find(s, ch, start) ==
    IF start >= Len(s) THEN npos
    ELSE IF s[start + 1] = ch THEN start
    ELSE find(s, ch, start + 1)

\* text.substr(pos, count) for pos <= text.length(); a count of npos, like any
\* count that reaches past the end, takes the rest of the string
substr(s, pos, count) ==
    IF count = npos \/ pos + count > Len(s) THEN SubSeq(s, pos + 1, Len(s))
    ELSE SubSeq(s, pos + 1, pos + count)

\* the inner while of wrapTextInner: where the line that starts at last_index
\* ends, searching back from next_end
RECURSIVE wrapTextInnerEnd(_, _, _, _)
wrapTextInnerEnd(s, last_index, max_end, next_end) ==
    IF s[next_end + 1] = SpaceChar THEN next_end
    ELSE IF next_end = Len(s) - 1 THEN next_end
    ELSE IF next_end = last_index THEN max_end
    ELSE wrapTextInnerEnd(s, last_index, max_end, next_end - 1)

\* the outer while of Utility::wrapTextInner from last_index on
RECURSIVE wrapTextInnerLoop(_, _, _, _)
wrapTextInnerLoop(s, width, last_index, lines) ==
    IF last_index = Len(s) THEN lines
    ELSE LET max_end == Min(last_index + width - 1, Len(s) - 1)
             next_end == wrapTextInnerEnd(s, last_index, max_end, max_end)
         IN  wrapTextInnerLoop(s, width, next_end + 1,
                 Append(lines, substr(s, last_index, (next_end - last_index) + 1)))

\* Utility::wrapTextInner
wrapTextInner(s, width) == wrapTextInnerLoop(s, width, 0, << >>)

\* the while of Utility::wrapText; `start` is its value at the top of the body
RECURSIVE wrapTextLoop(_, _, _, _)
wrapTextLoop(s, width, start, lines) ==
    LET from == start + 1
        end == find(s, NewLine, from)
        tmp == wrapTextInner(substr(s, from, IF end = npos THEN npos ELSE end - from), width)
    IN  IF end = npos THEN lines \o tmp
        ELSE wrapTextLoop(s, width, end, lines \o tmp)

\* Utility::wrapText
wrapText(s, width) ==
    IF Len(s) < 1 THEN << << >> >>
    ELSE LET lines == wrapTextLoop(s, width, 0, << >>)
         IN  IF Len(lines) > 0 THEN << << s[1] >> \o lines[1] >> \o Tail(lines)
             ELSE lines

\* buffer[k] = c.  A store past the array is kept as a stray cell.
StoreChar(array, k, c) ==
    IF k \in DOMAIN array THEN [array EXCEPT ![k] = AssignChar(@, c)]
    ELSE (k :> Tixel(c, DefaultColour)) @@ array

\* the column loop of Utility::drawTextWrapped for one line
RECURSIVE drawTextWrappedColumns(_, _, _, _, _, _)
drawTextWrappedColumns(array, line, col, row, text_origin, buffer_size) ==
    IF col >= Len(line) THEN array
    ELSE drawTextWrappedColumns(
             StoreChar(array, (text_origin.x + col) + ((text_origin.y + row) * buffer_size.x),
                       line[col + 1]),
             line, col + 1, row, text_origin, buffer_size)

\* the line loop of Utility::drawTextWrapped; `row` is the row of lines[n]
RECURSIVE drawTextWrappedLines(_, _, _, _, _, _, _)
drawTextWrappedLines(array, lines, n, row, text_origin, max_size, buffer_size) ==
    IF n > Len(lines) THEN array
    ELSE IF row >= max_size.y \/ row + text_origin.y >= buffer_size.y THEN array
    ELSE IF row + text_origin.y < 0
         THEN drawTextWrappedLines(array, lines, n + 1, row + 1, text_origin, max_size,
                                   buffer_size)
    ELSE drawTextWrappedLines(
             drawTextWrappedColumns(array, lines[n], 0, row, text_origin, buffer_size),
             lines, n + 1, row + 1, text_origin, max_size, buffer_size)

\* the width Utility::drawTextWrapped wraps to
drawTextWrappedWidth(text_origin, max_size, buffer_size) ==
    Min(max_size.x, buffer_size.x - text_origin.x)

\* Utility::drawTextWrapped on heap h; `buffer` is a pointer
drawTextWrapped(h, s, text_origin, max_size, buffer, buffer_size) ==
    IF buffer = nullptr THEN h
    ELSE IF buffer_size.x <= 0 \/ buffer_size.y <= 0 THEN h
    ELSE [h EXCEPT ![buffer] =
             drawTextWrappedLines(@,
                 wrapText(s, drawTextWrappedWidth(text_origin, max_size, buffer_size)),
                 1, 0, text_origin, max_size, buffer_size)]

----------------------------------------------------------------------------
(* Keyboard input: decoding of the terminal's bytes (the __linux__ branch   *)
(* of Input::getQueuedKeyEvents) and shortcut dispatch.                     *)

\* Input::ControlKeys
NONE == 0
CTRL == 1
SHIFT == 2
ALT == 4

\* Input::ArrowKeys
UP == 17
DOWN == 18
LEFT == 19
RIGHT == 20

\* '\e'
ESC == 27
\* the key code of the delete key
DeleteKey == 127

Key(k, c) == [key |-> k, control_states |-> c]

\* Input::linux_keymap, row by row
KeymapRows ==
    <<
       << 32, CTRL >>, << 65, CTRL >>, << 66, CTRL >>, << 67, CTRL >>, << 68, CTRL >>, << 69, CTRL >>, << 70, CTRL >>, << 71, CTRL >>,
       << 8, NONE >>, << 9, NONE >>, << 10, NONE >>, << 75, CTRL >>, << 76, CTRL >>, << 77, CTRL >>, << 78, CTRL >>, << 79, CTRL >>,
       << 80, CTRL >>, << 81, CTRL >>, << 82, CTRL >>, << 83, CTRL >>, << 84, CTRL >>, << 85, CTRL >>, << 86, CTRL >>, << 87, CTRL >>,
       << 88, CTRL >>, << 89, CTRL >>, << 90, CTRL >>, << 27, NONE >>, << 28, NONE >>, << 29, NONE >>, << 30, NONE >>, << 31, NONE >>,
       << 32, NONE >>, << 33, SHIFT >>, << 34, SHIFT >>, << 35, NONE >>, << 36, SHIFT >>, << 37, SHIFT >>, << 38, SHIFT >>, << 39, NONE >>,
       << 40, SHIFT >>, << 41, SHIFT >>, << 42, SHIFT >>, << 43, SHIFT >>, << 44, NONE >>, << 45, NONE >>, << 46, NONE >>, << 47, NONE >>,
       << 48, NONE >>, << 49, NONE >>, << 50, NONE >>, << 51, NONE >>, << 52, NONE >>, << 53, NONE >>, << 54, NONE >>, << 55, NONE >>,
       << 56, NONE >>, << 57, NONE >>, << 58, SHIFT >>, << 59, NONE >>, << 60, SHIFT >>, << 61, NONE >>, << 62, SHIFT >>, << 63, SHIFT >>,
       << 64, SHIFT >>, << 65, SHIFT >>, << 66, SHIFT >>, << 67, SHIFT >>, << 68, SHIFT >>, << 69, SHIFT >>, << 70, SHIFT >>, << 71, SHIFT >>,
       << 72, SHIFT >>, << 73, SHIFT >>, << 74, SHIFT >>, << 75, SHIFT >>, << 76, SHIFT >>, << 77, SHIFT >>, << 78, SHIFT >>, << 79, SHIFT >>,
       << 80, SHIFT >>, << 81, SHIFT >>, << 82, SHIFT >>, << 83, SHIFT >>, << 84, SHIFT >>, << 85, SHIFT >>, << 86, SHIFT >>, << 87, SHIFT >>,
       << 88, SHIFT >>, << 89, SHIFT >>, << 90, SHIFT >>, << 91, NONE >>, << 92, NONE >>, << 93, NONE >>, << 94, SHIFT >>, << 95, SHIFT >>,
       << 96, NONE >>, << 97, NONE >>, << 98, NONE >>, << 99, NONE >>, << 100, NONE >>, << 101, NONE >>, << 102, NONE >>, << 103, NONE >>,
       << 104, NONE >>, << 105, NONE >>, << 106, NONE >>, << 107, NONE >>, << 108, NONE >>, << 109, NONE >>, << 110, NONE >>, << 111, NONE >>,
       << 112, NONE >>, << 113, NONE >>, << 114, NONE >>, << 115, NONE >>, << 116, NONE >>, << 117, NONE >>, << 118, NONE >>, << 119, NONE >>,
       << 120, NONE >>, << 121, NONE >>, << 122, NONE >>, << 123, SHIFT >>, << 124, SHIFT >>, << 125, SHIFT >>, << 126, SHIFT >>, << 8, NONE >>
    >>

linux_keymap == [c \in 0 .. 127 |-> Key(KeymapRows[c + 1][1], KeymapRows[c + 1][2])]

\* buffer[k]: the array has 64 bytes, zeroed before the read, so a position
\* past the bytes read (polls here are shorter than 64) holds 0
ByteAt(bytes, k) == IF k < Len(bytes) THEN bytes[k + 1] ELSE 0

\* uint8_t buffer[64]
BufferSize == 64

\* faulty variant of KeymapKey: the byte itself is taken for the key
KeymapKeyRaw(c_next, stray) == c_next

\* linux_keymap[c_next].key.  The table has 128 entries; for c_next >= 128 the
\* read is past its end and yields whatever lies there, `stray`.  So does a
\* read of buffer[64].
KeymapKey(c_next, stray) == IF c_next < 128 THEN linux_keymap[c_next].key ELSE stray

\* one round of the for loop of Input::getQueuedKeyEvents with i = pos: the
\* key it pushes, the indices at which it reads buffer and linux_keymap (&&
\* reads its right side only when the left side holds), the value of i when
\* the round is over, i++ included, and whether it leaves the loop by break
getQueuedKeyEventsRound(bytes, pos, stray) ==
    LET bytes_read == Len(bytes)
        c == ByteAt(bytes, pos)
        c_next == ByteAt(bytes, pos + 2)
        c_next_next == IF pos + 5 < BufferSize THEN ByteAt(bytes, pos + 5) ELSE stray
        Round(pushed, next, buffer_indices, keymap_indices, left) ==
            [pushed |-> pushed, pos |-> next, buffer |-> buffer_indices,
             linux_keymap |-> keymap_indices, break |-> left]
        tested == { pos, pos + 1, pos + 2 }
                      \cup (IF pos <= bytes_read - 5 /\ c_next = 49 THEN { pos + 3 } ELSE { })
                      \cup (IF pos <= bytes_read - 5 /\ c_next = 49 /\ ByteAt(bytes, pos + 3) = 59
                            THEN { pos + 4 } ELSE { })
                      \cup (IF pos <= bytes_read - 4 /\ c_next = 51 THEN { pos + 3 } ELSE { })
    IN  IF c = ESC
        THEN IF pos = bytes_read - 1
             THEN Round(<< Key(ESC, NONE) >>, pos + 1, { pos }, { }, FALSE)
             ELSE IF ByteAt(bytes, pos + 1) # 91
             THEN Round(<< Key(KeymapKey(ByteAt(bytes, pos + 1), stray), ALT) >>, pos + 2,
                        { pos, pos + 1 }, { ByteAt(bytes, pos + 1) }, FALSE)
             ELSE IF pos = bytes_read - 2
             THEN Round(<< Key(91, ALT) >>, pos + 2, { pos, pos + 1 }, { }, FALSE)
             ELSE IF c_next = 65
             THEN Round(<< Key(UP, NONE) >>, pos + 3, { pos, pos + 1, pos + 2 }, { }, FALSE)
             ELSE IF c_next = 66
             THEN Round(<< Key(DOWN, NONE) >>, pos + 3, { pos, pos + 1, pos + 2 }, { }, FALSE)
             ELSE IF c_next = 68
             THEN Round(<< Key(LEFT, NONE) >>, pos + 3, { pos, pos + 1, pos + 2 }, { }, FALSE)
             ELSE IF c_next = 67
             THEN Round(<< Key(RIGHT, NONE) >>, pos + 3, { pos, pos + 1, pos + 2 }, { }, FALSE)
             ELSE IF pos <= bytes_read - 5 /\ c_next = 49 /\ ByteAt(bytes, pos + 3) = 59
                     /\ ByteAt(bytes, pos + 4) = 50
             THEN Round(IF c_next_next = 65 THEN << Key(UP, SHIFT) >>
                        ELSE IF c_next_next = 66 THEN << Key(DOWN, SHIFT) >>
                        ELSE IF c_next_next = 68 THEN << Key(LEFT, SHIFT) >>
                        ELSE IF c_next_next = 67 THEN << Key(RIGHT, SHIFT) >>
                        ELSE << >>,
                        pos + 6, pos .. pos + 5, { }, FALSE)
             ELSE IF pos <= bytes_read - 4 /\ c_next = 51 /\ ByteAt(bytes, pos + 3) = 126
             THEN Round(<< Key(DeleteKey, NONE) >>, pos + 5, tested, { }, FALSE)
             ELSE Round(<< >>, pos, tested, { }, TRUE)
        ELSE IF c < 128
        THEN Round(<< linux_keymap[c] >>, pos + 1, { pos }, { c }, FALSE)
        ELSE Round(<< >>, pos, { pos }, { }, TRUE)

\* the for loop of Input::getQueuedKeyEvents from i = pos on
RECURSIVE getQueuedKeyEventsLoop(_, _, _, _)
getQueuedKeyEventsLoop(bytes, pos, evs, stray) ==
    IF pos >= Len(bytes) THEN evs
    ELSE LET round == getQueuedKeyEventsRound(bytes, pos, stray)
         IN  IF round.break THEN evs
             ELSE getQueuedKeyEventsLoop(bytes, round.pos, evs \o round.pushed, stray)

\* Input::getQueuedKeyEvents for the bytes one read() delivers (none: kbhit() < 1)
getQueuedKeyEvents(bytes, stray) == getQueuedKeyEventsLoop(bytes, 0, << >>, stray)

\* the indices read in one more round, added to those read so far
Reading(read, round) ==
    [buffer |-> read.buffer \cup round.buffer,
     linux_keymap |-> read.linux_keymap \cup round.linux_keymap]

\* the same loop, for the indices at which it reads buffer and linux_keymap
RECURSIVE getQueuedKeyEventsReadsLoop(_, _, _)
getQueuedKeyEventsReadsLoop(bytes, pos, read) ==
    IF pos >= Len(bytes) THEN read
    ELSE LET round == getQueuedKeyEventsRound(bytes, pos, 0)
         IN  IF round.break THEN Reading(read, round)
             ELSE getQueuedKeyEventsReadsLoop(bytes, round.pos, Reading(read, round))

getQueuedKeyEventsReads(bytes) == getQueuedKeyEventsReadsLoop(bytes, 0, NoReads)

\* toupper
toupper(k) == IF k >= 97 /\ k <= 122 THEN k - 32 ELSE k

\* the flags (bits 1, 2, 4) set in a ControlKeys value
FlagsOf(c) == { f \in { CTRL, SHIFT, ALT } : (c \div f) % 2 = 1 }

\* faulty variant of compare: the modifiers are not compared
compareKeysOnly(a, b) ==
    (a.key = b.key) \/ (a.control_states # NONE /\ toupper(a.key) = toupper(b.key))

\* faulty variant of compare: the modifiers need only have a flag in common
compareAnyFlag(a, b) ==
    /\ (a.control_states = b.control_states) \/ (FlagsOf(a.control_states) \cap FlagsOf(b.control_states) # { })
    /\ (a.key = b.key) \/ (a.control_states # NONE /\ toupper(a.key) = toupper(b.key))

\* Input::compare
compare(a, b) ==
    /\ a.control_states = b.control_states
    /\ (a.key = b.key) \/ (a.control_states # NONE /\ toupper(a.key) = toupper(b.key))

Shortcut(b) == [binding |-> b]

\* the inner for of Input::processShortcuts for event number n, from shortcut
\* number j on: whether the event is consumed, and the callbacks invoked
RECURSIVE processShortcutsInner(_, _, _, _, _)
processShortcutsInner(table, k, n, j, state) ==
    IF j > Len(table) THEN state
    ELSE processShortcutsInner(table, k, n, j + 1,
             IF compare(k, table[j].binding)
             THEN [consumed |-> TRUE,
                   calls |-> Append(state.calls, [event |-> n, shortcut |-> j])]
             ELSE state)

\* the outer for of Input::processShortcuts from event number n on
RECURSIVE processShortcutsLoop(_, _, _, _, _)
processShortcutsLoop(table, keys, n, non_processed, invoked) ==
    IF n > Len(keys) THEN [key_events |-> non_processed, calls |-> invoked]
    ELSE LET k == keys[n]
             state == processShortcutsInner(table, k, n, 1,
                                            [consumed |-> FALSE, calls |-> invoked])
         IN  processShortcutsLoop(table, keys, n + 1,
                 IF ~state.consumed THEN Append(non_processed, k) ELSE non_processed,
                 state.calls)

\* Input::processShortcuts: what it leaves in key_events, and the callbacks it invokes
processShortcuts(table, keys) == processShortcutsLoop(table, keys, 1, << >>, << >>)

\* faulty variant of IsTextCharacter: the modifiers are not looked at
IsTextCharacterAnyModifier(k) ==
    \/ (k.key >= 32 /\ k.key <= 127)
    \/ k.key \in { NewLine, 9, 8, 127, UP, DOWN, LEFT, RIGHT }

\* the condition of Input::getTextCharacters under which a key is text
IsTextCharacter(k) ==
    /\ k.control_states = NONE \/ k.control_states = SHIFT
    /\ \/ (k.key >= 32 /\ k.key <= 127)
       \/ k.key = NewLine
       \/ k.key = 9
       \/ k.key = 8
       \/ k.key = 127
       \/ k.key = UP
       \/ k.key = DOWN
       \/ k.key = LEFT
       \/ k.key = RIGHT

\* the loop of Input::getTextCharacters from key number n on; a pair is a
\* record [first, second], its first the key cast to uint8_t
RECURSIVE getTextCharactersLoop(_, _, _, _)
getTextCharactersLoop(keys, n, non_processed, pairs) ==
    IF n > Len(keys) THEN [key_events |-> non_processed, result |-> pairs]
    ELSE IF IsTextCharacter(keys[n])
         THEN getTextCharactersLoop(keys, n + 1, non_processed,
                  Append(pairs, [first |-> keys[n].key % 256, second |-> keys[n].control_states]))
         ELSE getTextCharactersLoop(keys, n + 1, Append(non_processed, keys[n]), pairs)

\* Input::getTextCharacters: what it leaves in key_events, and what it returns
getTextCharacters(keys) == getTextCharactersLoop(keys, 1, << >>, << >>)

----------------------------------------------------------------------------
(* Transcoding of a frame.  The output is a sequence of byte values.        *)

FG_WHITE == 15
BG_BLACK == 16
UNICODE_BOX_HORIZONTAL == 8492258

\* std::to_string of a natural number: its decimal digits
RECURSIVE to_string(_)
to_string(n) == IF n < 10 THEN << 48 + n >> ELSE to_string(n \div 10) \o << 48 + (n % 10) >>

\* Tixel::toANSI
toANSI(c) ==
    CASE c = 1 -> 30
      [] c = 16 -> 40
      [] c = 2 -> 91
      [] c = 32 -> 101
      [] c = 4 -> 92
      [] c = 64 -> 102
      [] c = 6 -> 93
      [] c = 96 -> 103
      [] c = 8 -> 94
      [] c = 128 -> 104
      [] c = 10 -> 95
      [] c = 160 -> 105
      [] c = 12 -> 96
      [] c = 192 -> 106
      [] c = 14 -> 90
      [] c = 224 -> 100
      [] c = 15 -> 97
      [] c = 240 -> 107
      [] OTHER -> 40

\* ANSI_SET_COLOUR(c): ESC [ c m
ANSI_SET_COLOUR(c) == << ESC, 91 >> \o to_string(c) \o << 109 >>

\* ANSI_CLEAR_SCROLL: ESC [ 3 J
ANSI_CLEAR_SCROLL == << ESC, 91, 51, 74 >>

\* ANSI_SET_CURSOR(x, y): ESC [ y ; x H
ANSI_SET_CURSOR(x, y) == << ESC, 91 >> \o to_string(y) \o << 59 >> \o to_string(x) \o << 72 >>

\* colour & FG_WHITE and colour & BG_WHITE (0xF0) of an 8-bit colour
MaskForeground(colour) == colour % (FG_WHITE + 1)
MaskBackground(colour) == colour - (colour % (FG_WHITE + 1))

\* faulty variant of ColourChange: the command is written for every cell
ColourChangeAlways(current, new) == ANSI_SET_COLOUR(toANSI(new))

\* if (foreground != new_foreground) output += "\033[" + to_string(toANSI(new_foreground)) + 'm',
\* and the same statement for the background: what is appended to output
ColourChange(current, new) ==
    IF current # new THEN ANSI_SET_COLOUR(toANSI(new)) ELSE << >>

\* the push_backs of one character: the low byte, and a further byte for each
\* of the bits 0x80, 0x8000, 0x800000 that is set
CharacterBytes(chr) ==
    << chr % 256 >>
    \o (IF (chr \div 128) % 2 = 1 THEN << (chr \div 256) % 256 >> ELSE << >>)
    \o (IF (chr \div 32768) % 2 = 1 THEN << (chr \div 65536) % 256 >> ELSE << >>)
    \o (IF (chr \div 8388608) % 2 = 1 THEN << (chr \div 16777216) % 256 >> ELSE << >>)

\* the transcoding loop of Renderer::render from cell `index` on (`i` in the source)
RECURSIVE transcode(_, _, _, _, _, _)
transcode(root_staging_buffer, length, index, foreground, background, out) ==
    IF index >= length THEN out
    ELSE LET new_foreground == MaskForeground(root_staging_buffer[index].colour)
             new_background == MaskBackground(root_staging_buffer[index].colour)
         IN  transcode(root_staging_buffer, length, index + 1, new_foreground, new_background,
                       out \o ColourChange(foreground, new_foreground)
                           \o ColourChange(background, new_background)
                           \o CharacterBytes(root_staging_buffer[index].character))

\* Renderer::getConstrainedSize
getConstrainedSize(available, max, min) == IF max = -1 THEN available ELSE Min(available, max)

\* what Renderer::render writes to OUTPUT_TARGET before the transcoding when
\* there is a root component
FramePrelude ==
    ANSI_CLEAR_SCROLL \o ANSI_SET_COLOUR(toANSI(FG_WHITE)) \o ANSI_SET_COLOUR(toANSI(BG_BLACK))
    \o ANSI_SET_CURSOR(0, 0)

----------------------------------------------------------------------------
(* Page: the focus.  Components are small naturals; the position k of the   *)
(* source in focusable_component_sequence is element k + 1 of the sequence. *)

\* (size_t)-1, that is 2^64 - 1
SIZE_MAX == -1

\* v % n for a size_t v and n > 0
SizeRem(v, n) ==
    IF v = SIZE_MAX
    THEN LET p16 == 65536 % n
             p32 == (p16 * p16) % n
             p64 == (p32 * p32) % n
         IN  (p64 + n - 1) % n
    ELSE v % n

\* the loop of Page::updateFocus from position k on
RECURSIVE updateFocusLoop(_, _, _, _)
updateFocusLoop(sequence, index, flags, k) ==
    IF k >= Len(sequence) THEN flags
    ELSE updateFocusLoop(sequence, index, [flags EXCEPT ![sequence[k + 1]] = (k = index)], k + 1)

\* Page::updateFocus: the `focused` fields it leaves
updateFocus(sequence, index, flags) == updateFocusLoop(sequence, index, flags, 0)

\* Page::setFocusIndex: min((int)index, (int)size() - 1), stored as a size_t
setFocusIndex(sequence, index) ==
    IF Min(index, Len(sequence) - 1) < 0 THEN SIZE_MAX ELSE Min(index, Len(sequence) - 1)

\* faulty variant of advanceFocusLoop: the next component is taken whether or
\* not it is focusable
advanceFocusLoopAny(sequence, focusable, index, old_focus, count) ==
    [focused_component_index |-> (index + 1) % Len(sequence), was_any_focusable |-> TRUE,
     iterations |-> count + 1]

\* the do-while of Page::advanceFocus, entered with focused_component_index = index
RECURSIVE advanceFocusLoop(_, _, _, _, _)
advanceFocusLoop(sequence, focusable, index, old_focus, count) ==
    LET next == (index + 1) % Len(sequence)
    IN  IF focusable[sequence[next + 1]]
        THEN [focused_component_index |-> next, was_any_focusable |-> TRUE,
              iterations |-> count + 1]
        ELSE IF next # old_focus
        THEN advanceFocusLoop(sequence, focusable, next, old_focus, count + 1)
        ELSE [focused_component_index |-> next, was_any_focusable |-> FALSE,
              iterations |-> count + 1]

\* Page::advanceFocus on a page [focusable_component_sequence,
\* focused_component_index, focused]: the page it leaves, and how often the
\* loop body ran
advanceFocus(page, focusable, page_pointer) ==
    IF page_pointer = 0 THEN [page |-> page, iterations |-> 0]
    ELSE IF page.focusable_component_sequence = << >> THEN [page |-> page, iterations |-> 0]
    ELSE LET sequence == page.focusable_component_sequence
             old_focus == SizeRem(page.focused_component_index, Len(sequence))
             found == advanceFocusLoop(sequence, focusable, old_focus, old_focus, 0)
             index == IF ~found.was_any_focusable THEN SIZE_MAX
                      ELSE found.focused_component_index
         IN  [page |-> [focusable_component_sequence |-> sequence,
                        focused_component_index |-> index,
                        focused |-> updateFocus(sequence, index, page.focused)],
              iterations |-> found.iterations]

----------------------------------------------------------------------------
(* Page: the registry.  A name is a tuple: << s >> for a name s the caller  *)
(* gave, << "__component_", type, n >> for the generated name               *)
(* "__component_" + type + '_' + to_string(n).  The registry is a function   *)
(* from the names it holds to components.                                   *)

EmptyName == << "" >>
UserNames == << << "a" >>, << "b" >> >>
TypeNames == << "Label", "VerticalBox" >>

\* the position of a name in the order of std::map<string, ...>: '_' sorts
\* before the letters, generated names by type and number
PositionIn(sequence, e) == CHOOSE k \in 1 .. Len(sequence) : sequence[k] = e
NameRank(name) ==
    IF name = EmptyName THEN 0
    ELSE IF Len(name) = 3 THEN (PositionIn(TypeNames, name[2]) * 100) + name[3]
    ELSE 1000 + PositionIn(UserNames, name)

\* the names in S in ascending order
RECURSIVE NamesInOrder(_)
NamesInOrder(S) ==
    IF S = { } THEN << >>
    ELSE LET first == CHOOSE e \in S : \A o \in S : NameRank(e) <= NameRank(o)
         IN  << first >> \o NamesInOrder(S \ { first })

\* the names of a registry in iteration order
NamesOf(registry) == NamesInOrder(DOMAIN registry)

\* map::erase(name)
Erase(registry, name) == [n \in (DOMAIN registry) \ { name } |-> registry[n]]

\* map::insert(pair(name, component)): a name that is present keeps its component
Insert(registry, name, component) ==
    IF name \in DOMAIN registry THEN registry
    ELSE [n \in (DOMAIN registry) \cup { name } |->
             IF n = name THEN component ELSE registry[n]]

\* map::operator[](name): a name that is absent is inserted with nullptr
Subscript(registry, name) ==
    [map |-> Insert(registry, name, 0),
     value |-> IF name \in DOMAIN registry THEN registry[name] ELSE 0]

\* Component::getTypeName: the first component is a VerticalBox, the others Labels
getTypeName(component) == IF component = 1 THEN "VerticalBox" ELSE "Label"

\* Page::isNameUnique
isNameUnique(registry, name) == IF name = EmptyName THEN FALSE ELSE name \notin DOMAIN registry

\* Page::getUniqueName: the loop from number n on
RECURSIVE getUniqueNameFrom(_, _, _)
getUniqueNameFrom(registry, type, n) ==
    IF << "__component_", type, n >> \in DOMAIN registry
    THEN getUniqueNameFrom(registry, type, n + 1)
    ELSE << "__component_", type, n >>

getUniqueName(registry, type) == getUniqueNameFrom(registry, type, 0)

\* Page::registerComponent: the registry it leaves
registerComponent(registry, component, identifier) ==
    IF isNameUnique(registry, identifier) THEN Insert(registry, identifier, component)
    ELSE Insert(registry, getUniqueName(registry, getTypeName(component)), component)

\* Page::unregisterComponent of a registered name: the registry it leaves
unregisterComponent(registry, identifier) == Erase(registry, identifier)

\* the loop of Page::destroyAllComponents over all_names from number n on;
\* exclude_list is the set of the names in it; delete of nullptr does nothing
RECURSIVE destroyAllComponentsLoop(_, _, _, _)
destroyAllComponentsLoop(all_names, n, exclude_list, state) ==
    IF n > Len(all_names) THEN state
    ELSE LET name == all_names[n]
             unregistered == unregisterComponent(state.components, name)
             looked_up == Subscript(unregistered, name)
         IN  destroyAllComponentsLoop(all_names, n + 1, exclude_list,
                 IF name \in exclude_list
                 THEN [components |-> looked_up.map,
                       remainders |-> Append(state.remainders, looked_up.value),
                       deleted |-> state.deleted]
                 ELSE [components |-> looked_up.map,
                       remainders |-> state.remainders,
                       deleted |-> state.deleted \cup ({ looked_up.value } \ { 0 })])

\* Page::destroyAllComponents: the registry it leaves, what it returns and
\* what it deleted (root and the focus sequence are cleared by the caller of
\* this operator)
destroyAllComponents(registry, exclude_list, were_deleted) ==
    destroyAllComponentsLoop(NamesOf(registry), 1, exclude_list,
        [components |-> registry, remainders |-> << >>, deleted |-> were_deleted])

\* the elements of a sequence
Range(sequence) == { sequence[k] : k \in 1 .. Len(sequence) }

\* the first loop of Page::ensureIntegrity: the nodes found from the queue
\* to_check, given those found so far (the tree has no cycle)
RECURSIVE Discover(_, _, _)
Discover(to_check, discovered_nodes, children_of) ==
    IF to_check = << >> THEN discovered_nodes
    ELSE LET comp == Head(to_check)
         IN  Discover(Tail(to_check) \o SelectSeq(children_of[comp], LAMBDA c : c # 0),
                      discovered_nodes \cup { comp }, children_of)

\* known_nodes as the second loop builds it: each registered component with
\* the first, in the order of the names, of the names it is registered under
KnownNodes(registry) ==
    [c \in { registry[n] : n \in DOMAIN registry } |->
        CHOOSE n \in DOMAIN registry :
            /\ registry[n] = c
            /\ \A o \in DOMAIN registry : registry[o] = c => NameRank(n) <= NameRank(o)]

\* for (auto p : known_nodes) unregisterComponent(p.second), over what is left
\* of known_nodes
RECURSIVE UnregisterAll(_, _)
UnregisterAll(registry, names) ==
    IF names = { } THEN registry
    ELSE LET name == CHOOSE n \in names : TRUE
         IN  UnregisterAll(unregisterComponent(registry, name), names \ { name })

\* for (auto c : new_nodes) registerComponent(c, ""): new_nodes is in the order
\* of the addresses of the components, which is any order
RECURSIVE RegisterAll(_, _)
RegisterAll(registry, new_nodes) ==
    IF new_nodes = { } THEN { registry }
    ELSE UNION { RegisterAll(registerComponent(registry, c, EmptyName), new_nodes \ { c }) :
                 c \in new_nodes }

\* Page::ensureIntegrity with a root that is not nullptr: the registries it
\* can leave
ensureIntegrity(registry, page_root, children_of) ==
    LET discovered_nodes == Discover(<< page_root >>, { }, children_of)
        known_nodes == KnownNodes(registry)
        new_nodes == discovered_nodes \ DOMAIN known_nodes
        left_known == (DOMAIN known_nodes) \ discovered_nodes
    IN  RegisterAll(UnregisterAll(registry, { known_nodes[c] : c \in left_known }), new_nodes)

----------------------------------------------------------------------------
(* Size queries of the two linear containers *)

\* faulty variant of HorizontalBox_getMaxSizeStep: a bounded child is added to
\* the width even after an unbounded one was seen
HorizontalBox_getMaxSizeStepNoGuard(max_size, c_max) ==
    LET mx == IF c_max.x = -1 THEN -1 ELSE max_size.x + c_max.x
        my == IF max_size.y # -1 /\ (c_max.y > max_size.y \/ c_max.y = -1) THEN c_max.y
              ELSE max_size.y
    IN  Coordinate(mx, my)

\* one iteration of the loop of HorizontalBox::getMaxSize
HorizontalBox_getMaxSizeStep(max_size, c_max) ==
    LET mx == IF c_max.x = -1 THEN -1
              ELSE IF max_size.x # -1 THEN max_size.x + c_max.x
              ELSE max_size.x
        my == IF max_size.y # -1 /\ (c_max.y > max_size.y \/ c_max.y = -1) THEN c_max.y
              ELSE max_size.y
    IN  Coordinate(mx, my)

\* one iteration of the loop of VerticalBox::getMaxSize
VerticalBox_getMaxSizeStep(max_size, c_max) ==
    LET mx == IF max_size.x # -1 /\ (c_max.x > max_size.x \/ c_max.x = -1) THEN c_max.x
              ELSE max_size.x
        my == IF c_max.y = -1 THEN -1
              ELSE IF max_size.y # -1 THEN max_size.y + c_max.y
              ELSE max_size.y
    IN  Coordinate(mx, my)

\* one iteration of the loop of HorizontalBox::getMinSize
HorizontalBox_getMinSizeStep(min_size, c_min) ==
    Coordinate(min_size.x + c_min.x, IF c_min.y > min_size.y THEN c_min.y ELSE min_size.y)

\* one iteration of the loop of VerticalBox::getMinSize
VerticalBox_getMinSizeStep(min_size, c_min) ==
    Coordinate(IF c_min.x > min_size.x THEN c_min.x ELSE min_size.x, min_size.y + c_min.y)

RECURSIVE getMaxSizeLoop(_, _, _)
getMaxSizeLoop(kind, cs, max_size) ==
    IF cs = << >> THEN max_size
    ELSE getMaxSizeLoop(kind, Tail(cs),
             IF kind = "HorizontalBox"
             THEN HorizontalBox_getMaxSizeStep(max_size, Head(cs).max)
             ELSE VerticalBox_getMaxSizeStep(max_size, Head(cs).max))

RECURSIVE getMinSizeLoop(_, _, _)
getMinSizeLoop(kind, cs, min_size) ==
    IF cs = << >> THEN min_size
    ELSE getMinSizeLoop(kind, Tail(cs),
             IF kind = "HorizontalBox"
             THEN HorizontalBox_getMinSizeStep(min_size, Head(cs).min)
             ELSE VerticalBox_getMinSizeStep(min_size, Head(cs).min))

\* getMaxSize / getMinSize of a container of class `kind` with children cs
getMaxSize(kind, cs) == getMaxSizeLoop(kind, cs, Coordinate(0, 0))
getMinSize(kind, cs) == getMinSizeLoop(kind, cs, Coordinate(0, 0))

----------------------------------------------------------------------------
(* HorizontalBox::render / VerticalBox::render.  The two bodies are the     *)
(* same text with x and y exchanged; Pack and Cross select the axis.        *)

Pointers == 1 .. 2
\* where the caller's canvas lives
OutputAddress == 1
\* where render's component_buffer is allocated
ComponentAddress == 2

NoRender == [child |-> 0, output_buffer |-> nullptr, size |-> Coordinate(0, 0)]
NoRequest == [src |-> nullptr, src_size |-> Coordinate(0, 0), src_offset |-> Coordinate(0, 0),
              area_size |-> Coordinate(0, 0),
              dst |-> nullptr, dst_size |-> Coordinate(0, 0), dst_offset |-> Coordinate(0, 0)]

\* what a child paints stands for the virtual Component::render: the child
\* marks every cell of the canvas it is handed with its own letter
ChildGlyph(c) == 64 + c
ChildRender(h, c, buffer, buffer_size) ==
    IF buffer = nullptr THEN h
    ELSE [h EXCEPT ![buffer] =
             [k \in DOMAIN @ |-> IF k < buffer_size.x * buffer_size.y
                                 THEN AssignChar(@[k], ChildGlyph(c)) ELSE @[k]]]

\* the Coordinate component_size of the placement loop
component_size(kind, sz, c_max, calculated) ==
    PackCross(kind, calculated,
              IF Cross(kind, c_max) = -1 THEN Cross(kind, sz)
              ELSE Min(Cross(kind, sz), Cross(kind, c_max)))

\* faulty variant of Budget: the other axis of `size` is read
BudgetCrossAxis(kind, sz, mins) == Cross(kind, sz) - SumSeq(mins)

\* int budget = size.x - total_width;  (size.y - total_height)
Budget(kind, sz, mins) == Pack(kind, sz) - SumSeq(mins)

\* the caller queries the container's size range before it renders it
GetSize ==
    /\ pc = "constructed"
    /\ box_min' = getMinSize(box, children)
    /\ box_max' = getMaxSize(box, children)
    /\ pc' = "render"
    /\ UNCHANGED << restVars, box, children, size, output_buffer, heap, extent, min_sizes, max_sizes,
                    calculated_sizes, budget, changed, i, offset, rendered, lastRender,
                    request, before >>

\* entry of render: the measuring loop, the budget, the too-small return
Measure ==
    /\ pc = "render"
    /\ LET mins == [k \in 1 .. Len(children) |-> Pack(box, children[k].min)]
           maxs == [k \in 1 .. Len(children) |-> Pack(box, children[k].max)]
           b == Budget(box, size, mins)
       IN  /\ min_sizes' = mins
           /\ max_sizes' = maxs
           /\ calculated_sizes' = mins
           /\ budget' = b
           /\ IF b < 0
              THEN /\ heap' = showTooSmallMessage(heap, size, output_buffer)
                   /\ pc' = "returned"
              ELSE /\ heap' = heap
                   /\ pc' = "while"
    /\ UNCHANGED << restVars, box, children, size, output_buffer, extent, changed, i, offset, rendered,
                    lastRender, box_min, box_max, request, before >>

\* while (budget > 0) { changed = false; for (i = 0; ...
WhileTest ==
    /\ pc = "while"
    /\ IF budget > 0
       THEN /\ changed' = FALSE
            /\ i' = 1
            /\ pc' = "for"
            /\ offset' = offset
       ELSE /\ changed' = changed
            /\ i' = 1
            /\ offset' = 0
            /\ pc' = "place"
    /\ UNCHANGED << restVars, box, children, size, output_buffer, heap, extent, min_sizes, max_sizes,
                    calculated_sizes, budget, rendered, lastRender, box_min, box_max,
                    request, before >>

\* faulty variant of AtMax: > in place of >=
AtMaxOffByOne(calculated, maxs, k) == calculated[k] > maxs[k] /\ maxs[k] # -1

\* whether the sweep skips child k
AtMax(calculated, maxs, k) == calculated[k] >= maxs[k] /\ maxs[k] # -1

\* faulty variant of SweepChild: the index does not advance after a grant, so
\* one child is filled before the next is looked at
SweepChildGreedy ==
    /\ pc = "for"
    /\ i <= Len(children)
    /\ IF AtMax(calculated_sizes, max_sizes, i)
       THEN /\ i' = i + 1
            /\ pc' = "for"
            /\ UNCHANGED << restVars, calculated_sizes, changed, budget >>
       ELSE /\ calculated_sizes' = [calculated_sizes EXCEPT ![i] = @ + 1]
            /\ changed' = TRUE
            /\ budget' = budget - 1
            /\ i' = i
            /\ pc' = IF budget - 1 = 0 THEN "endfor" ELSE "for"
    /\ UNCHANGED << restVars, box, children, size, output_buffer, heap, extent, min_sizes, max_sizes,
                    offset, rendered, lastRender, box_min, box_max, request, before >>

\* one iteration of the for loop of the sweep
SweepChild ==
    /\ pc = "for"
    /\ i <= Len(children)
    /\ IF AtMax(calculated_sizes, max_sizes, i)
       THEN /\ i' = i + 1
            /\ pc' = "for"
            /\ UNCHANGED << restVars, calculated_sizes, changed, budget >>
       ELSE /\ calculated_sizes' = [calculated_sizes EXCEPT ![i] = @ + 1]
            /\ changed' = TRUE
            /\ budget' = budget - 1
            /\ IF budget - 1 = 0
               THEN /\ pc' = "endfor"
                    /\ i' = i
               ELSE /\ pc' = "for"
                    /\ i' = i + 1
    /\ UNCHANGED << restVars, box, children, size, output_buffer, heap, extent, min_sizes, max_sizes,
                    offset, rendered, lastRender, box_min, box_max, request, before >>

\* faulty variant of AfterSweep: the `if (!changed) break;` is missing
AfterSweepNoBreak ==
    /\ \/ pc = "endfor"
       \/ pc = "for" /\ i > Len(children)
    /\ pc' = "while"
    /\ UNCHANGED << restVars, box, children, size, output_buffer, heap, extent, min_sizes, max_sizes,
                    calculated_sizes, budget, changed, i, offset, rendered, lastRender,
                    box_min, box_max, request, before >>

\* the for loop is over (exhausted or left by break): if (!changed) break;
AfterSweep ==
    /\ \/ pc = "endfor"
       \/ pc = "for" /\ i > Len(children)
    /\ IF ~changed
       THEN /\ pc' = "place"
            /\ i' = 1
            /\ offset' = 0
       ELSE /\ pc' = "while"
            /\ UNCHANGED << restVars, i, offset >>
    /\ UNCHANGED << restVars, box, children, size, output_buffer, heap, extent, min_sizes, max_sizes,
                    calculated_sizes, budget, changed, rendered, lastRender, box_min,
                    box_max, request, before >>

\* one iteration of the placement loop: allocate, render the child, copy, release
PlaceChild ==
    /\ pc = "place"
    /\ i <= Len(children)
    /\ LET csize == component_size(box, size, children[i].max, calculated_sizes[i])
           array == makeBuffer(csize)
           component_buffer == PointerTo(array, ComponentAddress)
           h1 == [heap EXCEPT ![ComponentAddress] = array]
           h2 == ChildRender(h1, i, component_buffer, csize)
       IN  /\ rendered' = Append(rendered, i)
           /\ lastRender' = [child |-> i, output_buffer |-> component_buffer, size |-> csize]
           /\ \E h3 \in copyBox(h2, component_buffer, csize, Coordinate(0, 0), csize,
                                output_buffer, size, PackCross(box, offset, 0)) :
                  heap' = [h3 EXCEPT ![ComponentAddress] = NoArray]
           /\ offset' = offset + Pack(box, csize)
    /\ i' = i + 1
    /\ UNCHANGED << restVars, box, children, size, output_buffer, extent, pc, min_sizes, max_sizes,
                    calculated_sizes, budget, changed, box_min, box_max, request, before >>

\* the placement loop is over: render returns
Return ==
    /\ pc = "place"
    /\ i > Len(children)
    /\ pc' = "returned"
    /\ UNCHANGED << restVars, box, children, size, output_buffer, heap, extent, min_sizes, max_sizes,
                    calculated_sizes, budget, changed, i, offset, rendered, lastRender,
                    box_min, box_max, request, before >>

----------------------------------------------------------------------------
(* Initial states: a container with its children, about to be drawn into a  *)
(* fresh canvas of the given size.                                          *)

Boxes == { "HorizontalBox", "VerticalBox" }
MinVals == 0 .. MaxMin
MaxVals == -1 .. MaxMax

Child(min_size, max_size) == [min |-> min_size, max |-> max_size]

SeqsUpTo(S, n) == UNION { [1 .. m -> S] : m \in 0 .. n }

\* children that vary on the packing axis and are one cell, stretchable, across
PackingChildren(kind) ==
    { Child(PackCross(kind, mn, 1), PackCross(kind, mx, -1)) : mn \in MinVals, mx \in MaxVals }

\* children that vary on the cross axis and are one cell, stretchable, along
CrossChildren(kind) ==
    { Child(PackCross(kind, 1, mn), PackCross(kind, -1, mx)) : mn \in MinVals, mx \in MaxVals }

\* ListView (10,3)..(-1,-1) twice and TextArea (3,3)..(-1,-1)
WideChildren ==
    << Child(Coordinate(10, 3), Coordinate(-1, -1)),
       Child(Coordinate(10, 3), Coordinate(-1, -1)),
       Child(Coordinate(3, 3), Coordinate(-1, -1)) >>

\* the end-to-end example: children 4..unbounded and 4..4 in a size of 10
ExampleChildren(kind) ==
    << Child(PackCross(kind, 4, 1), PackCross(kind, -1, 1)),
       Child(PackCross(kind, 4, 1), PackCross(kind, 4, 1)) >>
ExampleSize(kind) == PackCross(kind, 10, 1)

InitInputs ==
    \/ /\ box \in Boxes
       /\ children \in SeqsUpTo(PackingChildren(box), MaxChildren)
       /\ \E a \in 0 .. MaxAvail : size = PackCross(box, a, 1)
    \/ /\ box \in Boxes
       /\ children \in SeqsUpTo(CrossChildren(box), MaxChildren)
       /\ \E c \in 0 .. MaxCross : size = PackCross(box, MaxAvail, c)
    \/ /\ box \in Boxes
       /\ children = WideChildren
       /\ size \in { Coordinate(w, h) : w \in Len(long_msg) - 1 .. Len(long_msg) + 2, h \in 0 .. 3 }
    \/ /\ box \in Boxes
       /\ children = ExampleChildren(box)
       /\ size = ExampleSize(box)

Init ==
    /\ RestIdle
    /\ InitInputs
    /\ heap = [p \in Pointers |-> IF p = OutputAddress THEN makeBuffer(size) ELSE NoArray]
    /\ output_buffer = PointerTo(makeBuffer(size), OutputAddress)
    /\ extent = [p \in Pointers |-> IF p = OutputAddress THEN size ELSE Coordinate(0, 0)]
    /\ pc = "constructed"
    /\ min_sizes = << >>
    /\ max_sizes = << >>
    /\ calculated_sizes = << >>
    /\ budget = 0
    /\ changed = FALSE
    /\ i = 1
    /\ offset = 0
    /\ rendered = << >>
    /\ lastRender = NoRender
    /\ box_min = Coordinate(0, 0)
    /\ box_max = Coordinate(0, 0)
    /\ request = NoRequest
    /\ before = heap

Next ==
    \/ GetSize
    \/ Measure
    \/ WhileTest
    \/ SweepChild
    \/ AfterSweep
    \/ PlaceChild
    \/ Return

Spec == Init /\ [][Next]_vars

\* render is an ordinary blocking call on one thread: it keeps running
FairSpec == Spec /\ WF_vars(Next)

----------------------------------------------------------------------------
(* copyBox on its own: two canvases with distinguishable cells, and one     *)
(* call with arbitrary arguments, source and destination possibly the same  *)
(* canvas.                                                                  *)

MaxSide == Max(CanvasWidth, CanvasHeight)
CanvasSizes == { Coordinate(CanvasWidth, CanvasHeight), Coordinate(CanvasHeight, CanvasWidth) }
Offsets == { Coordinate(a, b) : a \in -1 .. MaxSide - 1, b \in -1 .. MaxSide - 1 }
Areas == { Coordinate(a, b) : a \in 0 .. MaxSide, b \in 0 .. MaxSide }

\* a canvas as makeBuffer allocates it for sz, every cell then given a
\* character and a colour of its own
PaintedCanvas(p, sz) ==
    [k \in 0 .. (sz.x * sz.y) |->
        IF k < sz.x * sz.y THEN Tixel((100 * p) + k, (20 * p) + k)
        ELSE Tixel(0, DefaultColour)]

\* the size a caller passes along with pointer p
SizeOf(p) == IF p = nullptr THEN Coordinate(0, 0) ELSE extent[p]

InitCopy ==
    /\ RestIdle
    /\ extent \in [Pointers -> CanvasSizes]
    /\ heap = [p \in Pointers |-> PaintedCanvas(p, extent[p])]
    /\ pc = "canvases"
    /\ request = NoRequest
    /\ before = heap
    /\ box = "HorizontalBox"
    /\ children = << >>
    /\ size = Coordinate(0, 0)
    /\ output_buffer = nullptr
    /\ min_sizes = << >>
    /\ max_sizes = << >>
    /\ calculated_sizes = << >>
    /\ budget = 0
    /\ changed = FALSE
    /\ i = 1
    /\ offset = 0
    /\ rendered = << >>
    /\ lastRender = NoRender
    /\ box_min = Coordinate(0, 0)
    /\ box_max = Coordinate(0, 0)

\* one call copyBox(src, src_size, src_offset, area_size, dst, dst_size, dst_offset)
CopyBoxCall ==
    /\ pc = "canvases"
    /\ \E src \in { nullptr } \cup Pointers, dst \in { nullptr } \cup Pointers,
          src_offset \in Offsets, area_size \in Areas, dst_offset \in Offsets :
          /\ request' = [src |-> src, src_size |-> SizeOf(src), src_offset |-> src_offset,
                         area_size |-> area_size,
                         dst |-> dst, dst_size |-> SizeOf(dst), dst_offset |-> dst_offset]
          /\ \E h \in copyBox(heap, src, SizeOf(src), src_offset, area_size,
                              dst, SizeOf(dst), dst_offset) : heap' = h
    /\ before' = heap
    /\ pc' = "copied"
    /\ UNCHANGED << restVars, box, children, size, output_buffer, extent, min_sizes, max_sizes,
                    calculated_sizes, budget, changed, i, offset, rendered, lastRender,
                    box_min, box_max >>

NextCopy == CopyBoxCall

SpecCopy == InitCopy /\ [][NextCopy]_vars

----------------------------------------------------------------------------
(* The canvas utilities on their own: a canvas is allocated, a text may be  *)
(* drawn on it, and a rectangle of it is recoloured.                        *)

\* the variables of the container's render, which these calls do not touch
layoutLocals == << box, children, min_sizes, max_sizes, calculated_sizes, budget, changed, i,
                   offset, rendered, lastRender, box_min, box_max >>

NoLayout ==
    /\ box = "HorizontalBox"
    /\ children = << >>
    /\ min_sizes = << >>
    /\ max_sizes = << >>
    /\ calculated_sizes = << >>
    /\ budget = 0
    /\ changed = FALSE
    /\ i = 1
    /\ offset = 0
    /\ rendered = << >>
    /\ lastRender = NoRender
    /\ box_min = Coordinate(0, 0)
    /\ box_max = Coordinate(0, 0)

FillColours == { HighlightedColour, UnfocusedColour }

InitCanvas ==
    /\ RestIdle
    /\ NoLayout
    /\ pc = "start"
    /\ size = Coordinate(0, 0)
    /\ output_buffer = nullptr
    /\ heap = [p \in Pointers |-> NoArray]
    /\ extent = [p \in Pointers |-> Coordinate(0, 0)]
    /\ request = NoRequest
    /\ before = heap

\* output_buffer = makeBuffer(buffer_size)
MakeBufferCall ==
    /\ pc = "start"
    /\ \E w \in -1 .. CanvasWidth, h \in -1 .. CanvasHeight :
          LET buffer_size == Coordinate(w, h)
              made == [heap EXCEPT ![OutputAddress] = makeBuffer(buffer_size)]
          IN  /\ size' = buffer_size
              /\ heap' = made
              /\ before' = made
              /\ output_buffer' = PointerTo(makeBuffer(buffer_size), OutputAddress)
              /\ extent' = [extent EXCEPT ![OutputAddress] = buffer_size]
    /\ pc' = "made"
    /\ UNCHANGED << restVars, layoutLocals, request >>

\* drawText(short_msg, text_origin, { size.x, 1 }, output_buffer, size)
DrawTextCall ==
    /\ pc = "made"
    /\ \E text_origin \in Offsets :
          LET drawn == drawText(heap, short_msg, text_origin, Coordinate(size.x, 1),
                                output_buffer, size)
          IN  heap' = drawn /\ before' = drawn
    /\ pc' = "drawn"
    /\ UNCHANGED << restVars, layoutLocals, size, output_buffer, extent, request >>

\* fillColour(colour, origin, fill_size, output_buffer, size)
FillColourCall ==
    /\ pc \in { "made", "drawn" }
    /\ \E colour \in FillColours, origin \in Offsets, fill_size \in Areas :
          /\ request' = [colour |-> colour, origin |-> origin, size |-> fill_size]
          /\ heap' = fillColour(heap, colour, origin, fill_size, output_buffer, size)
    /\ before' = heap
    /\ pc' = "filled"
    /\ UNCHANGED << restVars, layoutLocals, size, output_buffer, extent >>

NextCanvas ==
    \/ MakeBufferCall
    \/ DrawTextCall
    \/ FillColourCall

SpecCanvas == InitCanvas /\ [][NextCanvas]_vars

----------------------------------------------------------------------------
(* Text wrapping on its own: a text is wrapped to a width, or wrapped and   *)
(* drawn on a fresh canvas.                                                 *)

\* the letters a and b, the space and the line break
WrapAlphabet == { 97, 98, SpaceChar, NewLine }
Texts == SeqsUpTo(WrapAlphabet, MaxText)

InitWrap ==
    /\ NoLayout
    /\ NoPage
    /\ NoEncode
    /\ NoResize
    /\ NoInput
    /\ input_text \in Texts
    /\ max_width = 1
    /\ result = << >>
    /\ pc = "text"
    /\ size = Coordinate(CanvasWidth, CanvasHeight)
    /\ output_buffer = OutputAddress
    /\ heap = [p \in Pointers |-> IF p = OutputAddress THEN makeBuffer(size) ELSE NoArray]
    /\ extent = [p \in Pointers |-> IF p = OutputAddress THEN size ELSE Coordinate(0, 0)]
    /\ request = NoRequest
    /\ before = heap

\* result = wrapText(text, max_width)
WrapTextCall ==
    /\ pc = "text"
    /\ \E width \in 1 .. MaxWidth :
          /\ max_width' = width
          /\ result' = wrapText(input_text, width)
    /\ pc' = "wrapped"
    /\ UNCHANGED << layoutLocals, encodeVars, resizeVars, pageVars, inputVars, input_text, size, output_buffer, heap, extent,
                    request, before >>

\* drawTextWrapped(text, text_origin, max_size, output_buffer, size)
DrawTextWrappedCall ==
    /\ pc = "text"
    /\ \E ox \in 0 .. 1, oy \in -1 .. 1, mx \in 1 .. CanvasWidth, my \in 1 .. CanvasHeight :
          LET text_origin == Coordinate(ox, oy)
              max_size == Coordinate(mx, my)
          IN  /\ drawTextWrappedWidth(text_origin, max_size, size) >= 1
              /\ request' = [text_origin |-> text_origin, max_size |-> max_size]
              /\ max_width' = drawTextWrappedWidth(text_origin, max_size, size)
              /\ result' = wrapText(input_text, max_width')
              /\ heap' = drawTextWrapped(heap, input_text, text_origin, max_size,
                                         output_buffer, size)
    /\ before' = heap
    /\ pc' = "typeset"
    /\ UNCHANGED << layoutLocals, encodeVars, resizeVars, pageVars, inputVars, input_text, size, output_buffer, extent >>

NextWrap ==
    \/ WrapTextCall
    \/ DrawTextWrappedCall

SpecWrap == InitWrap /\ [][NextWrap]_vars

----------------------------------------------------------------------------
(* The input decoder on its own: one poll after another.                    *)

\* the final bytes A, B, C, D of the arrow sequences
ArrowFinals == 65 .. 68

\* byte sequences a terminal sends for one key: arrows, shift-arrows, delete,
\* alt-a, the keys a, A and ctrl-A
SequenceTokens ==
    { << ESC, 91, f >> : f \in ArrowFinals }
        \cup { << ESC, 91, 49, 59, 50, f >> : f \in ArrowFinals }
        \cup { << ESC, 91, 51, 126 >>, << ESC, 97 >>, << 97 >>, << 65 >>, << 1 >> }

\* ESC and ESC [ , which are keys of their own only at the end of a poll
EndTokens == { << ESC >>, << ESC, 91 >> }

\* what the decoder has no key for: a byte of a UTF-8 character, alone and
\* after ESC, and the sequences ESC [ Z and ESC [ 1 ; 2 Z
UnhandledTokens == { << 195 >>, << ESC, 195 >>, << ESC, 91, 90 >>, << ESC, 91, 49, 59, 50, 90 >> }

Tokens == SequenceTokens \cup EndTokens \cup UnhandledTokens

\* the byte strings made of up to n of the tokens in T
RECURSIVE TokenStrings(_, _)
TokenStrings(T, n) ==
    IF n = 0 THEN { << >> }
    ELSE { << >> } \cup { t \o rest : t \in T, rest \in TokenStrings(T, n - 1) }

\* every single byte, every byte after ESC, and strings of tokens
Polls ==
    { << b >> : b \in 0 .. 255 }
        \cup { << ESC, b >> : b \in 0 .. 255 }
        \cup TokenStrings(Tokens, MaxTokens)

\* what a read past the end of linux_keymap can yield
StrayKeys == { 0, 97 }

InitDecode ==
    /\ NoLayout
    /\ NoPage
    /\ NoEncode
    /\ NoResize
    /\ NoWrap
    /\ NoInput
    /\ pc = "idle"
    /\ size = Coordinate(0, 0)
    /\ output_buffer = nullptr
    /\ heap = [p \in Pointers |-> NoArray]
    /\ extent = [p \in Pointers |-> Coordinate(0, 0)]
    /\ request = NoRequest
    /\ before = heap

\* keys = Input::getQueuedKeyEvents() when read() delivers one of `polls`
PollFrom(polls, from, to) ==
    /\ pc = from
    /\ \E bytes \in polls, stray \in StrayKeys :
          /\ input_buffer' = bytes
          /\ events' = getQueuedKeyEvents(bytes, stray)
          /\ reads' = getQueuedKeyEventsReads(bytes)
          /\ position' = 0
          /\ key_events' = getQueuedKeyEvents(bytes, stray)
    /\ calls' = << >>
    /\ delivered' = << >>
    /\ accepted' = << >>
    /\ pc' = to
    /\ UNCHANGED << layoutLocals, encodeVars, resizeVars, pageVars, wrapVars, shortcuts, focused_component, size, output_buffer, heap, extent,
                    request, before >>

\* the first poll
Poll == PollFrom(Polls, "idle", "decoded")

\* the poll after it, of one key
PollAgain == PollFrom(SequenceTokens, "decoded", "redecoded")

NextDecode ==
    \/ Poll
    \/ PollAgain

SpecDecode == InitDecode /\ [][NextDecode]_vars

----------------------------------------------------------------------------
(* The decoder on polls that fill, or nearly fill, the 64 bytes of `buffer`. *)

\* n times the key a
Pad(n) == [k \in 1 .. n |-> 97]

\* how a poll ends: with strings of tokens, or with the first bytes of a sequence
PollTails ==
    (TokenStrings(Tokens, MaxTokens) \ { << >> })
        \cup UNION { { SubSeq(t, 1, k) : k \in 1 .. Len(t) } : t \in SequenceTokens }

\* polls of 1 to 64 bytes: the tails alone, and after as many a's as make 63
\* or 64 bytes
BufferPolls ==
    { Pad(n - Len(t)) \o t : t \in PollTails, n \in { BufferSize - 1, BufferSize } }
        \cup { t \in PollTails : Len(t) <= BufferSize }

\* what a read past the end of linux_keymap or of buffer can yield
StrayBytes == StrayKeys \cup { 65 }

BufferFrame ==
    UNCHANGED << layoutLocals, encodeVars, resizeVars, pageVars, wrapVars, shortcuts, focused_component,
                 calls, delivered, accepted, size, output_buffer, heap, extent, request, before >>

\* read(STDIN_FILENO, buffer, 64) delivers one of these polls
ReadCall ==
    /\ pc = "idle"
    /\ \E bytes \in BufferPolls : input_buffer' = bytes
    /\ events' = << >>
    /\ reads' = NoReads
    /\ position' = 0
    /\ pc' = "decoding"
    /\ UNCHANGED key_events
    /\ BufferFrame

\* one round of the for loop; what lies past the end of an array is open in
\* every round
DecodeRound ==
    /\ pc = "decoding"
    /\ position < Len(input_buffer)
    /\ \E stray \in StrayBytes :
          LET round == getQueuedKeyEventsRound(input_buffer, position, stray)
          IN  /\ events' = events \o round.pushed
              /\ reads' = Reading(reads, round)
              /\ position' = round.pos
              /\ pc' = IF round.break THEN "decoded" ELSE "decoding"
              /\ key_events' = IF round.break THEN events' ELSE key_events
    /\ UNCHANGED input_buffer
    /\ BufferFrame

\* i < bytes_read fails: return events
DecodeReturn ==
    /\ pc = "decoding"
    /\ position >= Len(input_buffer)
    /\ key_events' = events
    /\ pc' = "decoded"
    /\ UNCHANGED << input_buffer, events, reads, position >>
    /\ BufferFrame

NextBuffer ==
    \/ ReadCall
    \/ DecodeRound
    \/ DecodeReturn

SpecBuffer == InitDecode /\ [][NextBuffer]_vars

----------------------------------------------------------------------------
(* Renderer::handleInput: the keys of one poll go through the shortcut      *)
(* bindings.                                                                *)

\* bindings for a, ctrl-A, ctrl-a, arrow up, and one naming ctrl and shift at once
Bindings == { Key(97, NONE), Key(65, CTRL), Key(97, CTRL), Key(UP, NONE), Key(97, CTRL + SHIFT) }

\* the keys a, A, ctrl-A, alt-a and arrow up
ShortcutPolls == TokenStrings({ << 97 >>, << 65 >>, << 1 >>, << ESC, 97 >>, << ESC, 91, 65 >> },
                              MaxTokens)

InitInput ==
    /\ NoLayout
    /\ NoPage
    /\ NoEncode
    /\ NoResize
    /\ NoWrap
    /\ input_buffer = << >>
    /\ events = << >>
    /\ reads = NoReads
    /\ position = 0
    /\ shortcuts \in SeqsUpTo({ Shortcut(b) : b \in Bindings }, MaxShortcuts)
    /\ key_events = << >>
    /\ calls = << >>
    /\ focused_component = ComponentAddress
    /\ delivered = << >>
    /\ accepted = << >>
    /\ pc = "idle"
    /\ size = Coordinate(0, 0)
    /\ output_buffer = nullptr
    /\ heap = [p \in Pointers |-> NoArray]
    /\ extent = [p \in Pointers |-> Coordinate(0, 0)]
    /\ request = NoRequest
    /\ before = heap

\* auto keys = Input::getQueuedKeyEvents()
HandleInputPoll == PollFrom(ShortcutPolls, "idle", "decoded")

\* Input::processShortcuts(shortcut_bindings, keys)
ProcessShortcutsCall ==
    /\ pc = "decoded"
    /\ key_events' = processShortcuts(shortcuts, key_events).key_events
    /\ calls' = processShortcuts(shortcuts, key_events).calls
    /\ pc' = "dispatched"
    /\ UNCHANGED << layoutLocals, encodeVars, resizeVars, pageVars, wrapVars, input_buffer, events, reads,
                    position, shortcuts, focused_component, delivered, accepted, size, output_buffer, heap, extent,
                    request, before >>

\* text_keys = Input::getTextCharacters(keys), and focused_component->handleInput
\* for each of them unless focused_component is nullptr; the component here
\* takes every key
GetTextCharactersCall ==
    /\ pc = "dispatched"
    /\ key_events' = getTextCharacters(key_events).key_events
    /\ delivered' = IF focused_component = nullptr THEN << >>
                    ELSE getTextCharacters(key_events).result
    /\ accepted' = [d \in DOMAIN delivered' |-> TRUE]
    /\ pc' = "delivered"
    /\ UNCHANGED << layoutLocals, encodeVars, resizeVars, pageVars, wrapVars, input_buffer, events, reads,
                    position, shortcuts, calls,
                    focused_component, size, output_buffer, heap, extent, request, before >>

\* the next frame
NextFrame ==
    /\ pc = "delivered"
    /\ pc' = "idle"
    /\ UNCHANGED << layoutLocals, encodeVars, resizeVars, pageVars, wrapVars, inputVars, size, output_buffer, heap, extent,
                    request, before >>

NextInput ==
    \/ HandleInputPoll
    \/ ProcessShortcutsCall
    \/ GetTextCharactersCall
    \/ NextFrame

SpecInput == InitInput /\ [][NextInput]_vars

----------------------------------------------------------------------------
(* Renderer::handleInput over every kind of key: what reaches the focused    *)
(* component.                                                               *)

\* no shortcut, the focus shortcut of a Page (tab), and a shortcut on the key a
TextTables == { << >>, << Shortcut(Key(9, NONE)) >>, << Shortcut(Key(97, NONE)) >> }

InitText ==
    /\ NoLayout
    /\ NoPage
    /\ NoEncode
    /\ NoResize
    /\ NoWrap
    /\ input_buffer = << >>
    /\ events = << >>
    /\ reads = NoReads
    /\ position = 0
    /\ shortcuts \in TextTables
    /\ key_events = << >>
    /\ calls = << >>
    /\ focused_component \in { nullptr, ComponentAddress }
    /\ delivered = << >>
    /\ accepted = << >>
    /\ pc = "idle"
    /\ size = Coordinate(0, 0)
    /\ output_buffer = nullptr
    /\ heap = [p \in Pointers |-> NoArray]
    /\ extent = [p \in Pointers |-> Coordinate(0, 0)]
    /\ request = NoRequest
    /\ before = heap

\* auto keys = Input::getQueuedKeyEvents()
TextPoll == PollFrom(Polls, "idle", "decoded")

NextText ==
    \/ TextPoll
    \/ ProcessShortcutsCall
    \/ GetTextCharactersCall

SpecText == InitText /\ [][NextText]_vars

----------------------------------------------------------------------------
(* A Page whose focus is moved: by advanceFocus, by setFocusIndex and         *)
(* updateFocus, and with components that stop or start being focusable.      *)

Components == 1 .. MaxComponents
PageAddress == 1

\* the sequences of distinct components
FocusSequences ==
    { q \in SeqsUpTo(Components, MaxComponents) :
         \A a, b \in 1 .. Len(q) : q[a] = q[b] => a = b }

ThisPage ==
    [focusable_component_sequence |-> focusable_component_sequence,
     focused_component_index |-> focused_component_index,
     focused |-> focused]

InitFocus ==
    /\ NoLayout
    /\ NoWrap
    /\ NoInput
    /\ NoEncode
    /\ NoResize
    /\ current_page = PageAddress
    /\ focusable_component_sequence \in FocusSequences
    /\ focused_component_index = 0
    /\ focused = [c \in Components |-> FALSE]
    /\ enabled \in [Components -> BOOLEAN]
    /\ iterations = 0
    /\ components = << >>
    /\ root = 0
    /\ tree = << >>
    /\ deleted = { }
    /\ remainders = << >>
    /\ pc = "page"
    /\ size = Coordinate(0, 0)
    /\ output_buffer = nullptr
    /\ heap = [p \in Pointers |-> NoArray]
    /\ extent = [p \in Pointers |-> Coordinate(0, 0)]
    /\ request = NoRequest
    /\ before = heap

FocusFrame ==
    UNCHANGED << layoutLocals, wrapVars, inputVars, encodeVars, resizeVars, registryVars, current_page,
                 focusable_component_sequence, size, output_buffer, heap, extent, before >>

\* Page::advanceFocus(); `request` keeps the index it found
AdvanceFocusCall ==
    /\ request' = [focused_component_index |-> focused_component_index]
    /\ focused_component_index' = advanceFocus(ThisPage, enabled, current_page).page.focused_component_index
    /\ focused' = advanceFocus(ThisPage, enabled, current_page).page.focused
    /\ iterations' = advanceFocus(ThisPage, enabled, current_page).iterations
    /\ pc' = "advanced"
    /\ UNCHANGED enabled
    /\ FocusFrame

\* page.setFocusIndex(index); page.updateFocus()
SetFocusIndexCall ==
    /\ \E index \in 0 .. MaxComponents :
          /\ request' = NoRequest
          /\ focused_component_index' = setFocusIndex(focusable_component_sequence, index)
          /\ focused' = updateFocus(focusable_component_sequence, focused_component_index', focused)
    /\ pc' = "page"
    /\ UNCHANGED << enabled, iterations >>
    /\ FocusFrame

\* a component's `enabled` is assigned: its isFocusable() changes
SetEnabled ==
    /\ \E c \in Components, value \in BOOLEAN :
          /\ enabled[c] # value
          /\ enabled' = [enabled EXCEPT ![c] = value]
          /\ request' = NoRequest
    /\ pc' = "page"
    /\ UNCHANGED << focused_component_index, focused, iterations >>
    /\ FocusFrame

NextFocus ==
    \/ AdvanceFocusCall
    \/ SetFocusIndexCall
    \/ SetEnabled

SpecFocus == InitFocus /\ [][NextFocus]_vars

----------------------------------------------------------------------------
(* A Page whose registry is filled, reconciled with the tree and emptied.    *)

\* the trees the caller builds from the components: the VerticalBox holds the
\* Labels, or the first Label alone, or a nullptr and the first Label
Trees ==
    { [c \in Components |-> IF c = 1 THEN others ELSE << >>] :
      others \in { [k \in 1 .. (MaxComponents - 1) |-> k + 1], << 2 >>, << 0, 2 >> } }

\* the names a caller passes: none, a or b
Identifiers == { EmptyName } \cup Range(UserNames)

\* the exclude lists a caller passes, as sets of names
ExcludeLists == SUBSET Range(UserNames)

InitRegistry ==
    /\ NoLayout
    /\ NoWrap
    /\ NoInput
    /\ NoEncode
    /\ NoResize
    /\ current_page = PageAddress
    /\ focusable_component_sequence = << 2 >>
    /\ focused_component_index = 0
    /\ focused = [c \in Components |-> FALSE]
    /\ enabled = [c \in Components |-> TRUE]
    /\ iterations = 0
    /\ components = << >>
    /\ root = nullptr
    /\ tree \in Trees
    /\ deleted = { }
    /\ remainders = << >>
    /\ pc = "page"
    /\ size = Coordinate(0, 0)
    /\ output_buffer = nullptr
    /\ heap = [p \in Pointers |-> NoArray]
    /\ extent = [p \in Pointers |-> Coordinate(0, 0)]
    /\ request = NoRequest
    /\ before = heap

RegistryFrame ==
    UNCHANGED << layoutLocals, wrapVars, inputVars, encodeVars, resizeVars, current_page,
                 focused_component_index, focused, enabled, iterations, tree, size,
                 output_buffer, heap, extent >>

\* what is kept of the page as a call found it
Found == [components |-> components, root |-> root, deleted |-> deleted]

\* page.registerComponent(component, identifier), before the tree is handed over
RegisterComponentCall ==
    /\ pc = "page"
    /\ Cardinality(DOMAIN components) < MaxRegistered
    /\ \E c \in Components, identifier \in Identifiers :
          /\ components' = registerComponent(components, c, identifier)
          /\ request' = [component |-> c, identifier |-> identifier]
    /\ before' = Found
    /\ pc' = "page"
    /\ UNCHANGED << root, deleted, remainders, focusable_component_sequence >>
    /\ RegistryFrame

\* the body of ensureIntegrity for the root `page_root`.  With nullptr it
\* calls destroyAllComponents({ }) and then comp->getAllChildren() on nullptr,
\* which is undefined: the call faults on reading the object, or runs on with
\* Component::getAllChildren, which returns no children without reading it.
\* It then finds nullptr among the known nodes when the registry holds a
\* name (destroyAllComponents left nullptr under it) and changes nothing
\* more; otherwise nullptr is a new node and getTypeName() on it faults.
EnsureIntegrityBody(page_root) ==
    IF page_root = nullptr
    THEN LET destroyed == destroyAllComponents(components, { }, deleted)
         IN  /\ root' = nullptr
             /\ focusable_component_sequence' = << >>
             /\ deleted' = destroyed.deleted
             /\ remainders' = remainders
             /\ \/ /\ pc' = "fault"
                   /\ components' = destroyed.components
                \/ /\ destroyed.components # << >>
                   /\ pc' = "ensured"
                   /\ components' = destroyed.components
    ELSE /\ root' = page_root
         /\ components' \in ensureIntegrity(components, page_root, tree)
         /\ pc' = "ensured"
         /\ UNCHANGED << deleted, remainders, focusable_component_sequence >>

\* page.setRoot(component): root = component; ensureIntegrity()
SetRootCall ==
    /\ pc = "page"
    /\ \E c \in Components \cup { nullptr } :
          /\ request' = [component |-> c]
          /\ EnsureIntegrityBody(c)
    /\ before' = Found
    /\ RegistryFrame

\* page.ensureIntegrity() before a root was set, or after the page was emptied
EnsureIntegrityCall ==
    /\ pc \in { "page", "destroyed" }
    /\ request' = [component |-> root]
    /\ EnsureIntegrityBody(root)
    /\ before' = Found
    /\ RegistryFrame

\* page.destroyAllComponents(exclude_list)
DestroyAllComponentsCall ==
    /\ pc \in { "page", "ensured" }
    /\ \E exclude_list \in ExcludeLists :
          LET destroyed == destroyAllComponents(components, exclude_list, deleted)
          IN  /\ request' = [exclude_list |-> exclude_list]
              /\ components' = destroyed.components
              /\ remainders' = destroyed.remainders
              /\ deleted' = destroyed.deleted
    /\ root' = nullptr
    /\ focusable_component_sequence' = << >>
    /\ before' = Found
    /\ pc' = "destroyed"
    /\ RegistryFrame

NextRegistry ==
    \/ RegisterComponentCall
    \/ SetRootCall
    \/ EnsureIntegrityCall
    \/ DestroyAllComponentsCall

SpecRegistry == InitRegistry /\ [][NextRegistry]_vars

----------------------------------------------------------------------------
(* Page::checkInput and Page::render by turns: the keys of a poll go through *)
(* the page's shortcuts and the focus shortcut, then to the component that   *)
(* had the focus when checkInput began.  The components are text boxes.      *)

ShortcutTo(b, callback) == [binding |-> b, callback |-> callback]

\* the page's own `shortcuts`: one on ctrl-A
PageShortcuts == << ShortcutTo(Key(65, CTRL), "user") >>

\* the keys a, tab, ctrl-A and arrow up
CheckInputPolls == TokenStrings({ << 97 >>, << 9 >>, << 1 >>, << ESC, 91, 65 >> }, MaxTokens)

\* the callbacks of `invoked`, from number c on, run on the page: advanceFocus
\* changes it, a callback of the caller does not
RECURSIVE RunCallbacks(_, _, _, _, _)
RunCallbacks(table, invoked, c, state, focusable) ==
    IF c > Len(invoked) THEN state
    ELSE RunCallbacks(table, invoked, c + 1,
             IF table[invoked[c].shortcut].callback = "advanceFocus"
             THEN advanceFocus(state.page, focusable, PageAddress)
             ELSE state,
             focusable)

\* TextInputBox::handleInput: if (!focused || !enabled) return false
handleInput(component, is_focused, is_enabled) == is_focused[component] /\ is_enabled[component]

InitCheckInput ==
    /\ NoLayout
    /\ NoWrap
    /\ NoInput
    /\ NoEncode
    /\ NoResize
    /\ current_page = nullptr
    /\ focusable_component_sequence = [k \in 1 .. MaxComponents |-> k]
    /\ focused_component_index = 0
    /\ focused = [c \in Components |-> FALSE]
    /\ enabled \in [Components -> BOOLEAN]
    /\ iterations = 0
    /\ components = << >>
    /\ root \in { nullptr, 1 }
    /\ tree = [c \in Components |-> << >>]
    /\ deleted = { }
    /\ remainders = << >>
    /\ pc = "idle"
    /\ size = Coordinate(0, 0)
    /\ output_buffer = nullptr
    /\ heap = [p \in Pointers |-> NoArray]
    /\ extent = [p \in Pointers |-> Coordinate(0, 0)]
    /\ request = NoRequest
    /\ before = heap

CheckInputFrame ==
    UNCHANGED << layoutLocals, wrapVars, encodeVars, resizeVars, registryVars, focusable_component_sequence,
                 enabled, size, output_buffer, heap, extent, request >>

\* Page::checkInput up to the poll of Renderer::handleInput; `before` keeps the
\* page as it was
CheckInputPoll ==
    /\ pc = "idle"
    /\ current_page' = PageAddress
    /\ focused_component' =
          IF focused_component_index # SIZE_MAX
             /\ focused_component_index < Len(focusable_component_sequence)
             /\ root # nullptr
          THEN focusable_component_sequence[focused_component_index + 1]
          ELSE nullptr
    /\ shortcuts' = Append(PageShortcuts, ShortcutTo(Key(9, NONE), "advanceFocus"))
    /\ \E bytes \in CheckInputPolls, stray \in StrayKeys :
          /\ input_buffer' = bytes
          /\ events' = getQueuedKeyEvents(bytes, stray)
          /\ reads' = getQueuedKeyEventsReads(bytes)
          /\ position' = 0
          /\ key_events' = getQueuedKeyEvents(bytes, stray)
    /\ calls' = << >>
    /\ delivered' = << >>
    /\ accepted' = << >>
    /\ before' = ThisPage
    /\ pc' = "decoded"
    /\ UNCHANGED << focused_component_index, focused, iterations >>
    /\ CheckInputFrame

\* Input::processShortcuts(shortcut_bindings, keys) with the callbacks it invokes
PageProcessShortcuts ==
    /\ pc = "decoded"
    /\ key_events' = processShortcuts(shortcuts, key_events).key_events
    /\ calls' = processShortcuts(shortcuts, key_events).calls
    /\ LET ran == RunCallbacks(shortcuts, calls', 1, [page |-> ThisPage, iterations |-> iterations],
                               enabled)
       IN  /\ focused_component_index' = ran.page.focused_component_index
           /\ focused' = ran.page.focused
           /\ iterations' = ran.iterations
    /\ pc' = "dispatched"
    /\ UNCHANGED << current_page, input_buffer, events, reads, position, shortcuts, focused_component, delivered,
                    accepted, before >>
    /\ CheckInputFrame

\* Input::getTextCharacters(keys), and focused_component->handleInput for each
PageDeliver ==
    /\ pc = "dispatched"
    /\ key_events' = getTextCharacters(key_events).key_events
    /\ delivered' = IF focused_component = nullptr THEN << >>
                    ELSE getTextCharacters(key_events).result
    /\ accepted' = [d \in DOMAIN delivered' |-> handleInput(focused_component, focused, enabled)]
    /\ pc' = "delivered"
    /\ UNCHANGED << current_page, input_buffer, events, reads, position, shortcuts, calls, focused_component,
                    focused_component_index, focused, iterations, before >>
    /\ CheckInputFrame

\* Page::render: updateFocus() unless root is nullptr
PageRender ==
    /\ pc = "delivered"
    /\ current_page' = PageAddress
    /\ focused' = IF root = nullptr THEN focused
                  ELSE updateFocus(focusable_component_sequence, focused_component_index, focused)
    /\ pc' = "idle"
    /\ UNCHANGED << inputVars, focused_component_index, iterations, before >>
    /\ CheckInputFrame

NextCheckInput ==
    \/ CheckInputPoll
    \/ PageProcessShortcuts
    \/ PageDeliver
    \/ PageRender

SpecCheckInput == InitCheckInput /\ [][NextCheckInput]_vars

----------------------------------------------------------------------------
(* Renderer::render: a frame is composed from what the root component       *)
(* paints and is transcoded for the terminal.                               *)

\* no colour, a foreground alone, and the three colours of the library
FrameColours == { 0, 1, DefaultColour, HighlightedColour, UnfocusedColour }

\* the cells a root component paints
FrameCells ==
    { Tixel(SpaceChar, c) : c \in FrameColours }
    \cup { Tixel(UNICODE_BOX_HORIZONTAL, DefaultColour), Tixel(97, HighlightedColour) }

\* the sizes Terminal::getScreenSize reports
ScreenSizes ==
    { Coordinate(w, h) : w \in 0 .. MaxCells, h \in 1 .. MaxCells } \ { c \in
      { Coordinate(w, h) : w \in 0 .. MaxCells, h \in 1 .. MaxCells } : c.x * c.y > MaxCells }

\* what getMaxSize of the root component returns: unbounded, or one column wide
RootMaxSizes == { Coordinate(-1, -1), Coordinate(1, -1) }

\* what getMinSize of the root component returns
RootMinSizes == { Coordinate(0, 0), Coordinate(2, 1) }

\* what the virtual Component::render of the root component can leave in the
\* canvas it is handed
Paintings(array, buffer_size) ==
    IF array = NoArray THEN { NoArray }
    ELSE { [k \in DOMAIN array |-> IF k < buffer_size.x * buffer_size.y THEN cells[k] ELSE array[k]] :
           cells \in [0 .. (buffer_size.x * buffer_size.y - 1) -> FrameCells] }

InitEncode ==
    /\ NoLayout
    /\ NoPage
    /\ NoWrap
    /\ NoInput
    /\ NoEncode
    /\ NoResize
    /\ pc = "start"
    /\ size = Coordinate(0, 0)
    /\ output_buffer = nullptr
    /\ heap = [p \in Pointers |-> NoArray]
    /\ extent = [p \in Pointers |-> Coordinate(0, 0)]
    /\ request = NoRequest
    /\ before = heap

\* Renderer::render(root_component).  The staging buffer lives at
\* OutputAddress and the root component's buffer at ComponentAddress; both are
\* deleted before render returns, and `before` keeps the heap as the
\* transcoding read it.
RenderCall ==
    /\ pc = "start"
    /\ \E screen_size \in ScreenSizes, component \in { nullptr, ComponentAddress },
          root_max \in RootMaxSizes, root_min \in RootMinSizes :
          LET root_component_size ==
                  Coordinate(getConstrainedSize(screen_size.x, root_max.x, root_min.x),
                             getConstrainedSize(screen_size.y, root_max.y, root_min.y))
              allocated == [p \in Pointers |->
                               IF p = OutputAddress THEN makeBuffer(screen_size)
                               ELSE IF component # nullptr THEN makeBuffer(root_component_size)
                               ELSE NoArray]
          IN  \E painted \in Paintings(allocated[ComponentAddress], root_component_size) :
                 \E composed \in
                       IF component # nullptr
                       THEN copyBox([allocated EXCEPT ![ComponentAddress] = painted],
                                    PointerTo(painted, ComponentAddress), root_component_size,
                                    Coordinate(0, 0), root_component_size,
                                    PointerTo(allocated[OutputAddress], OutputAddress),
                                    screen_size, Coordinate(0, 0))
                       ELSE { allocated } :
                    /\ root_component' = component
                    /\ request' = [screen_size |-> screen_size,
                                   root_component_size |-> root_component_size,
                                   max_size |-> IF component # nullptr THEN root_max
                                                ELSE Coordinate(-1, -1),
                                   min_size |-> IF component # nullptr THEN root_min
                                                ELSE Coordinate(0, 0)]
                    /\ lastRender' = IF component # nullptr
                                     THEN [child |-> 0,
                                           output_buffer |-> PointerTo(painted, ComponentAddress),
                                           size |-> root_component_size]
                                     ELSE NoRender
                    /\ before' = [composed EXCEPT ![ComponentAddress] = NoArray]
                    /\ output' = transcode(composed[OutputAddress],
                                           screen_size.x * screen_size.y, 0, 0, 0, << >>)
                    /\ output_target' = (IF component # nullptr THEN FramePrelude ELSE << >>) \o output'
    /\ pc' = "presented"
    /\ UNCHANGED << box, children, min_sizes, max_sizes, calculated_sizes, budget, changed, i, offset,
                    rendered, box_min, box_max >>
    /\ UNCHANGED << wrapVars, inputVars, pageVars, resizeVars, size, output_buffer, heap, extent >>

NextEncode == RenderCall

SpecEncode == InitEncode /\ [][NextEncode]_vars

----------------------------------------------------------------------------
(* The resize notification on Linux: the handler of SIGWINCH may run between *)
(* any two steps of Terminal::isTerminalResized.                             *)

InitResize ==
    /\ NoLayout
    /\ NoWrap
    /\ NoInput
    /\ NoEncode
    /\ NoPage
    /\ linux_resized_triggered = TRUE
    /\ resized = FALSE
    /\ signals = 0
    /\ unreported = 0
    /\ returned = << >>
    /\ pc = "running"
    /\ size = Coordinate(0, 0)
    /\ output_buffer = nullptr
    /\ heap = [p \in Pointers |-> NoArray]
    /\ extent = [p \in Pointers |-> Coordinate(0, 0)]
    /\ request = NoRequest
    /\ before = heap

ResizeFrame ==
    UNCHANGED << layoutLocals, wrapVars, inputVars, encodeVars, pageVars, size, output_buffer,
                 heap, extent, request, before >>

\* Terminal::linuxResizeHandler: linux_resized_triggered = true
LinuxResizeHandler ==
    /\ signals < MaxSignals
    /\ linux_resized_triggered' = TRUE
    /\ signals' = signals + 1
    /\ unreported' = unreported + 1
    /\ UNCHANGED << pc, resized, returned >>
    /\ ResizeFrame

\* bool resized = linux_resized_triggered
ReadFlag ==
    /\ pc = "running"
    /\ Len(returned) < MaxCalls
    /\ resized' = linux_resized_triggered
    /\ pc' = "read"
    /\ UNCHANGED << linux_resized_triggered, signals, unreported, returned >>
    /\ ResizeFrame

\* linux_resized_triggered = false
ClearFlag ==
    /\ pc = "read"
    /\ linux_resized_triggered' = FALSE
    /\ pc' = "cleared"
    /\ UNCHANGED << resized, signals, unreported, returned >>
    /\ ResizeFrame

\* return resized
ReturnResized ==
    /\ pc = "cleared"
    /\ returned' = Append(returned, resized)
    /\ unreported' = IF resized THEN 0 ELSE unreported
    /\ pc' = "running"
    /\ UNCHANGED << linux_resized_triggered, resized, signals >>
    /\ ResizeFrame

NextResize ==
    \/ LinuxResizeHandler
    \/ ReadFlag
    \/ ClearFlag
    \/ ReturnResized

SpecResize == InitResize /\ [][NextResize]_vars

----------------------------------------------------------------------------
(* Properties of the size negotiation *)

Count == Len(children)
MinOf(k) == Pack(box, children[k].min)
MaxOf(k) == Pack(box, children[k].max)
Avail == Pack(box, size)
Baseline == SumSeq([k \in 1 .. Count |-> MinOf(k)])
Extra(k) == calculated_sizes[k] - MinOf(k)

\* the negotiation has run (the budget was not negative) and is over
Negotiated == pc \in { "place", "returned" } /\ budget >= 0

\* render took the too-small return
TooSmall == pc = "returned" /\ budget < 0

\* child k ends unbounded or under its max
EndsOpen(k) == MaxOf(k) = -1 \/ calculated_sizes[k] < MaxOf(k)

\* C1 as stated: after a negotiation with a non-negative budget every child's
\* size is at least its min and, when its max is bounded, at most its max.
C1_WithinMinMax ==
    Negotiated =>
        \A k \in 1 .. Count :
            /\ calculated_sizes[k] >= MinOf(k)
            /\ MaxOf(k) # -1 => calculated_sizes[k] <= MaxOf(k)

\* C1 amended: every child's size is at least its min; it is at most its max
\* when the max is bounded and not below the min; a child whose bounded max is
\* below its min is given exactly its min.
C1_WithinMinMaxWhenOrdered ==
    Negotiated =>
        \A k \in 1 .. Count :
            /\ calculated_sizes[k] >= MinOf(k)
            /\ (MaxOf(k) # -1 /\ MaxOf(k) >= MinOf(k)) => calculated_sizes[k] <= MaxOf(k)
            /\ (MaxOf(k) # -1 /\ MaxOf(k) < MinOf(k)) => calculated_sizes[k] = MinOf(k)

\* a child grew from its min up to its bounded max and stopped there while
\* budget was left over
C1_Witness ==
    /\ Negotiated
    /\ budget > 0
    /\ \E k \in 1 .. Count :
          MaxOf(k) # -1 /\ MinOf(k) < MaxOf(k) /\ calculated_sizes[k] = MaxOf(k)

\* C2 as stated, under either reading of "under its max" (before or after the
\* negotiation): the sizes sum to the available size when some child is
\* unbounded or under its max, and to the baseline otherwise.
C2_SumAvailableOrBaseline ==
    Negotiated =>
        \/ IF \E k \in 1 .. Count : MaxOf(k) = -1 \/ MinOf(k) < MaxOf(k)
           THEN SumSeq(calculated_sizes) = Avail
           ELSE SumSeq(calculated_sizes) = Baseline
        \/ IF \E k \in 1 .. Count : EndsOpen(k)
           THEN SumSeq(calculated_sizes) = Avail
           ELSE SumSeq(calculated_sizes) = Baseline

\* C2 amended: the sizes sum to the available size when some child ends
\* unbounded or under its max; otherwise every child is at its max (at its min
\* if that is larger) and the sizes sum to those caps, which is at most the
\* available size and at least the baseline.
C2_SumAvailableOrCaps ==
    Negotiated =>
        IF \E k \in 1 .. Count : EndsOpen(k)
        THEN SumSeq(calculated_sizes) = Avail
        ELSE /\ SumSeq(calculated_sizes) = SumSeq([k \in 1 .. Count |-> Max(MinOf(k), MaxOf(k))])
             /\ SumSeq(calculated_sizes) <= Avail
             /\ SumSeq(calculated_sizes) >= Baseline

\* every child is at its max, some child grew, and space is left over
C2_Witness ==
    /\ Negotiated
    /\ Count >= 2
    /\ \A k \in 1 .. Count : ~EndsOpen(k)
    /\ SumSeq(calculated_sizes) > Baseline
    /\ SumSeq(calculated_sizes) < Avail

\* C3: of two children that both end unbounded or under their max, the earlier
\* one is granted as much as the later one or exactly one unit more; the
\* example children 4..unbounded and 4..4 in a size of 10 get 6 and 4.
C3_EarlierChildrenFirst ==
    Negotiated =>
        /\ \A a, b \in 1 .. Count :
              (a < b /\ EndsOpen(a) /\ EndsOpen(b)) => Extra(a) - Extra(b) \in { 0, 1 }
        /\ (children = ExampleChildren(box) /\ size = ExampleSize(box))
              => calculated_sizes = << 6, 4 >>

\* an uneven split after more than one sweep
C3_Witness ==
    /\ Negotiated
    /\ \E a, b \in 1 .. Count :
          a < b /\ EndsOpen(a) /\ EndsOpen(b) /\ Extra(b) >= 1 /\ Extra(a) = Extra(b) + 1

\* the example has been negotiated
C3_ExampleReached ==
    /\ Negotiated
    /\ children = ExampleChildren(box)
    /\ size = ExampleSize(box)

\* the canvas `array` of size sz shows the first `limit` characters of `msg` on
\* row r, the text starting at column o (which may lie left of the canvas),
\* over otherwise untouched default cells
ShowsText(array, sz, msg, limit, o, r) ==
    \A k \in 0 .. (sz.x * sz.y) - 1 :
        LET cx == k % sz.x
            cy == k \div sz.x
        IN  IF cy = r /\ cx >= o /\ cx < o + Len(msg) /\ cx - o < limit
            THEN array[k] = Tixel(msg[(cx - o) + 1], DefaultColour)
            ELSE array[k] = Tixel(SpaceChar, DefaultColour)

\* position p centres an extent of `inner` inside an extent of `outer`
Centres(p, inner, outer) == Abs(p - ((outer - inner) - p)) <= 1

\* C4: with a negative budget no child is rendered, nothing is allocated, and
\* the canvas holds the centred too-small text (cut after as many characters
\* as the canvas is wide) and is otherwise untouched.
C4_OnlyPlaceholder ==
    TooSmall =>
        /\ rendered = << >>
        /\ lastRender = NoRender
        /\ heap[ComponentAddress] = NoArray
        /\ output_buffer = nullptr => heap[OutputAddress] = NoArray
        /\ output_buffer # nullptr =>
              LET msg == IF size.x >= Len(long_msg) THEN long_msg ELSE short_msg
              IN  \E o \in -Len(msg) .. size.x, r \in 0 .. size.y - 1 :
                      /\ Centres(o, Len(msg), size.x)
                      /\ Centres(r, 1, size.y)
                      /\ heap[OutputAddress][size.x * size.y] = Tixel(0, DefaultColour)
                      /\ ShowsText(heap[OutputAddress], size, msg, size.x, o, r)

\* the too-small return was taken on a canvas wide enough for the long text
C4_Witness ==
    /\ TooSmall
    /\ output_buffer # nullptr
    /\ size.x > Len(long_msg)
    /\ size.y > 1
    /\ Count > 0

\* C5: render always returns, and the sweeps end only when the budget is used
\* up or no child can take more.
C5_WaterfillTerminates ==
    /\ <>(pc = "returned")
    /\ [](pc = "place" => (budget = 0 \/ \A k \in 1 .. Count : AtMax(calculated_sizes, max_sizes, k)))

\* render returned although budget was left over: every child was at its max
C5_Witness ==
    /\ pc = "returned"
    /\ budget > 0
    /\ Count > 0
    /\ rendered # << >>

\* the cross-axis size the last rendered child was given
LastCross == Cross(box, lastRender.size)
LastChild == children[lastRender.child]

\* C6: a child's cross-axis size is min(available, max) when its cross max is
\* bounded, the available cross size otherwise, and never below its cross min.
C6_CrossAtLeastMin ==
    lastRender.child # 0 =>
        /\ LastCross = IF Cross(box, LastChild.max) # -1
                       THEN Min(Cross(box, size), Cross(box, LastChild.max))
                       ELSE Cross(box, size)
        /\ LastCross >= Cross(box, LastChild.min)

\* C7: every child render gets an existing canvas of positive width and height
\* whose size is the child's negotiated size.
C7_ChildCanvasExists ==
    lastRender.child # 0 =>
        /\ lastRender.output_buffer # nullptr
        /\ lastRender.size.x > 0
        /\ lastRender.size.y > 0
        /\ Pack(box, lastRender.size) = calculated_sizes[lastRender.child]

\* every arrangement of the sequence s
RECURSIVE Arrangements(_)
Arrangements(s) ==
    IF s = << >> THEN { << >> }
    ELSE UNION { { << s[k] >> \o rest :
                       rest \in Arrangements([j \in 1 .. Len(s) - 1 |->
                                                  IF j < k THEN s[j] ELSE s[j + 1]]) } :
                   k \in 1 .. Len(s) }

\* the greatest of the naturals in S, 0 for none
Greatest(S) == IF S = {} THEN 0 ELSE CHOOSE m \in S : \A n \in S : n <= m

\* C8: the container's min is the sum (packing axis) and the greatest (cross
\* axis) of the children's mins; its max on an axis is -1 exactly when a child
\* is unbounded there, else the sum resp. the greatest of the children's maxes;
\* neither depends on the order of the children.
C8_AggregateSizes ==
    pc # "constructed" =>
        /\ Pack(box, box_min) = SumSeq([k \in 1 .. Count |-> Pack(box, children[k].min)])
        /\ Cross(box, box_min) = Greatest({ Cross(box, children[k].min) : k \in 1 .. Count })
        /\ Pack(box, box_max) = -1 <=> \E k \in 1 .. Count : Pack(box, children[k].max) = -1
        /\ Cross(box, box_max) = -1 <=> \E k \in 1 .. Count : Cross(box, children[k].max) = -1
        /\ Pack(box, box_max) # -1 =>
              Pack(box, box_max) = SumSeq([k \in 1 .. Count |-> Pack(box, children[k].max)])
        /\ Cross(box, box_max) # -1 =>
              Cross(box, box_max) = Greatest({ Cross(box, children[k].max) : k \in 1 .. Count })
        /\ \A p \in Arrangements(children) :
              getMinSize(box, p) = box_min /\ getMaxSize(box, p) = box_max

\* two children whose bounded maxes were added on the packing axis
C8_Witness ==
    /\ pc # "constructed"
    /\ Count >= 2
    /\ Pack(box, box_max) >= 3
    /\ Pack(box, children[1].max) # Pack(box, children[2].max)

----------------------------------------------------------------------------
(* Properties of copyBox *)

Copied == pc = "copied"

\* the request names two canvases
BothCanvases == request.src # nullptr /\ request.dst # nullptr

\* the request is out of range in the words of the interface
OutOfRange ==
    \/ request.area_size.x <= 0
    \/ request.area_size.y <= 0
    \/ request.src_offset.x < 0
    \/ request.src_offset.y < 0
    \/ request.dst_offset.x < 0
    \/ request.dst_offset.y < 0
    \/ request.src_offset.x + request.area_size.x > request.src_size.x
    \/ request.src_offset.y + request.area_size.y > request.src_size.y
    \/ request.dst_offset.x + request.area_size.x > request.dst_size.x
    \/ request.dst_offset.y + request.area_size.y > request.dst_size.y

\* the cell of canvas array `a` of size sz at column cx, row cy
CellAt(a, sz, cx, cy) == a[cx + (cy * sz.x)]

\* (cx, cy) lies inside the destination rectangle of the request
InDstRect(cx, cy) ==
    /\ cx >= request.dst_offset.x
    /\ cx < request.dst_offset.x + request.area_size.x
    /\ cy >= request.dst_offset.y
    /\ cy < request.dst_offset.y + request.area_size.y

\* every cell of the destination rectangle holds what the source held at the
\* matching place when the call was made
RectangleCopied ==
    \A dx \in 0 .. request.area_size.x - 1, dy \in 0 .. request.area_size.y - 1 :
        CellAt(heap[request.dst], request.dst_size,
               request.dst_offset.x + dx, request.dst_offset.y + dy)
          = CellAt(before[request.src], request.src_size,
                   request.src_offset.x + dx, request.src_offset.y + dy)

\* nothing but the destination rectangle differs from the heap before the call
OutsideUntouched ==
    /\ \A p \in Pointers : p # request.dst => heap[p] = before[p]
    /\ DOMAIN heap[request.dst] = DOMAIN before[request.dst]
    /\ \A k \in DOMAIN heap[request.dst] :
          (k >= request.dst_size.x * request.dst_size.y
             \/ ~InDstRect(k % request.dst_size.x, k \div request.dst_size.x))
          => heap[request.dst][k] = before[request.dst][k]

\* the source rectangle holds after the call what it held before
SourceRectangleUntouched ==
    \A dx \in 0 .. request.area_size.x - 1, dy \in 0 .. request.area_size.y - 1 :
        CellAt(heap[request.src], request.src_size,
               request.src_offset.x + dx, request.src_offset.y + dy)
          = CellAt(before[request.src], request.src_size,
                   request.src_offset.x + dx, request.src_offset.y + dy)

\* source and destination rectangle lie in one canvas, at different offsets,
\* and share a cell
ShiftedOntoItself ==
    /\ request.src = request.dst
    /\ request.src_offset # request.dst_offset
    /\ Abs(request.src_offset.x - request.dst_offset.x) < request.area_size.x
    /\ Abs(request.src_offset.y - request.dst_offset.y) < request.area_size.y

C10_CopyExact ==
    (Copied /\ BothCanvases /\ ~OutOfRange) =>
        /\ RectangleCopied
        /\ OutsideUntouched
        /\ SourceRectangleUntouched

\* C10 amended: after an in-range request nothing outside the destination
\* rectangle is changed; unless the two rectangles lie in one canvas at
\* different offsets and overlap, the destination rectangle equals the source
\* rectangle and the source rectangle is unchanged (the whole source canvas,
\* when it is another canvas); copying a canvas onto itself at equal offsets
\* changes nothing.
C10_CopyExactUnlessShiftedOntoItself ==
    (Copied /\ BothCanvases /\ ~OutOfRange) =>
        /\ OutsideUntouched
        /\ ~ShiftedOntoItself => (RectangleCopied /\ SourceRectangleUntouched)
        /\ request.src # request.dst => heap[request.src] = before[request.src]
        /\ (request.src = request.dst /\ request.src_offset = request.dst_offset) =>
              heap = before

\* a rectangle of two rows and two columns copied between canvases of
\* different widths, from and to offsets that are not the origin
C10_Witness ==
    /\ Copied
    /\ BothCanvases
    /\ ~OutOfRange
    /\ request.src # request.dst
    /\ request.src_size.x # request.dst_size.x
    /\ request.area_size = Coordinate(2, 2)
    /\ request.src_offset.x + request.src_offset.y > 0
    /\ request.dst_offset.x + request.dst_offset.y > 0
    /\ heap # before

----------------------------------------------------------------------------
(* Properties of makeBuffer and fillColour *)

\* C11: makeBuffer returns nullptr exactly when the requested width or height
\* is <= 0; otherwise each of the width * height cells of the canvas is a
\* space in the default colour.
C11_MakeBufferResult ==
    pc = "made" =>
        /\ (output_buffer = nullptr) <=> (size.x <= 0 \/ size.y <= 0)
        /\ output_buffer # nullptr =>
              \A k \in 0 .. (size.x * size.y) - 1 :
                  /\ k \in DOMAIN heap[output_buffer]
                  /\ heap[output_buffer][k] = Tixel(SpaceChar, DefaultColour)

\* a canvas of several cells has been allocated
C11_Witness ==
    /\ pc = "made"
    /\ output_buffer # nullptr
    /\ size.x >= 2
    /\ size.y >= 2

\* the canvas cell (cx, cy) lies in the rectangle of the last fillColour call
InFill(cx, cy) ==
    /\ cx >= request.origin.x /\ cx < request.origin.x + request.size.x
    /\ cy >= request.origin.y /\ cy < request.origin.y + request.size.y

\* the cell with index k is a cell of the canvas (not the terminator past it)
\* and lies in the rectangle of the last fillColour call
Filled(k) ==
    /\ size.x > 0
    /\ k >= 0 /\ k < size.x * size.y
    /\ InFill(k % size.x, k \div size.x)

\* C12: fillColour writes no cell outside the canvas, leaves every character as
\* it was, gives the cells of the canvas that lie in the rectangle the
\* colour, and leaves the colour of every other cell as it was.
C12_FillColourFrame ==
    pc = "filled" =>
        \A p \in Pointers :
            /\ DOMAIN heap[p] = DOMAIN before[p]
            /\ \A k \in DOMAIN before[p] :
                  /\ heap[p][k].character = before[p][k].character
                  /\ heap[p][k].colour =
                        IF p = output_buffer /\ Filled(k) THEN request.colour
                        ELSE before[p][k].colour

\* a rectangle that starts left of the canvas and above it and reaches past its
\* right edge has recoloured part of a canvas that shows a text
C12_Witness ==
    /\ pc = "filled"
    /\ output_buffer # nullptr
    /\ request.origin.x < 0
    /\ request.origin.y < 0
    /\ request.origin.x + request.size.x > size.x
    /\ \E k \in DOMAIN heap[output_buffer] : Filled(k) /\ heap[output_buffer][k].character # SpaceChar
    /\ \E k \in 0 .. (size.x * size.y) - 1 : ~Filled(k)

----------------------------------------------------------------------------
(* Properties of wrapText and drawTextWrapped *)

\* the canvas cell (cx, cy) lies in the box drawTextWrapped was bounded to:
\* max_width columns from the text origin, max_size.y rows
InBox(cx, cy) ==
    /\ cx >= request.text_origin.x /\ cx < request.text_origin.x + max_width
    /\ cy >= request.text_origin.y /\ cy < request.text_origin.y + request.max_size.y

\* C13: for a max_width of at least 1 every line wrapText returns has at most
\* max_width characters, and drawTextWrapped changes no cell outside its
\* bounded box, whether in the canvas or past it.
C13_WrappedLinesFit ==
    /\ pc = "wrapped" => \A n \in 1 .. Len(result) : Len(result[n]) <= max_width
    /\ pc = "typeset" =>
          \A p \in Pointers :
              /\ DOMAIN heap[p] = DOMAIN before[p]
              /\ \A k \in DOMAIN before[p] :
                    heap[p][k] # before[p][k] =>
                        /\ p = output_buffer
                        /\ k < size.x * size.y
                        /\ InBox(k % size.x, k \div size.x)

\* the segments of s between its line breaks
RECURSIVE Segments(_)
Segments(s) ==
    LET end == find(s, NewLine, 0)
    IN  IF end = npos THEN << s >>
        ELSE << substr(s, 0, end) >> \o Segments(substr(s, end + 1, npos))

RECURSIVE Flatten(_)
Flatten(lines) == IF lines = << >> THEN << >> ELSE Head(lines) \o Flatten(Tail(lines))

Inked(s) == SelectSeq(s, LAMBDA c : c # SpaceChar)

\* every segment is spelled, white space aside, by one or more lines of its own
RECURSIVE Spells(_, _)
Spells(lines, segs) ==
    IF segs = << >> THEN lines = << >>
    ELSE \E n \in 1 .. Len(lines) :
            /\ Inked(Flatten(SubSeq(lines, 1, n))) = Inked(Head(segs))
            /\ Spells(SubSeq(lines, n + 1, Len(lines)), Tail(segs))

\* C14: no line wrapText returns contains a line break, and the lines fall
\* into one group per segment of the text, in order: every segment, an empty
\* one too, has at least one line, and no line holds characters of two segments.
C14_LineBreaksPreserved ==
    pc = "wrapped" =>
        /\ \A n \in 1 .. Len(result) : \A k \in 1 .. Len(result[n]) : result[n][k] # NewLine
        /\ Spells(result, Segments(input_text))

----------------------------------------------------------------------------
(* Properties of the input decoder *)

\* a poll has been decoded
Decoded == pc \in { "decoded", "redecoded" }

\* the arrow key a final byte A, B, C, D stands for
ArrowOf(f) == IF f = 65 THEN UP ELSE IF f = 66 THEN DOWN ELSE IF f = 67 THEN RIGHT ELSE LEFT

\* the one key event that the complete sequence `bytes` stands for
KeyOf(bytes) ==
    IF Len(bytes) = 3 THEN Key(ArrowOf(bytes[3]), NONE)
    ELSE IF Len(bytes) = 6 THEN Key(ArrowOf(bytes[6]), SHIFT)
    ELSE IF Len(bytes) = 4 THEN Key(DeleteKey, NONE)
    ELSE IF Len(bytes) = 2 THEN Key(linux_keymap[bytes[2]].key, ALT)
    ELSE IF bytes[1] = ESC THEN Key(ESC, NONE)
    ELSE linux_keymap[bytes[1]]

\* the polls that are exactly one complete recognized sequence
CompleteSequences ==
    { << ESC, 91, f >> : f \in ArrowFinals }
        \cup { << ESC, 91, 49, 59, 50, f >> : f \in ArrowFinals }
        \cup { << ESC, 91, 51, 126 >>, << ESC >> }
        \cup { << ESC, b >> : b \in (0 .. 127) \ { 91 } }
        \cup { << b >> : b \in 0 .. 127 }

\* C16: a poll that is exactly one complete recognized sequence decodes to
\* exactly one key event, the one the sequence stands for; a lowercase letter
\* gives that letter unmodified.
C16_OneSequenceOneEvent ==
    (Decoded /\ input_buffer \in CompleteSequences) =>
        /\ events = << KeyOf(input_buffer) >>
        /\ (Len(input_buffer) = 1 /\ input_buffer[1] \in 97 .. 122) =>
               events = << Key(input_buffer[1], NONE) >>

\* shift + arrow up has been decoded
C16_Witness ==
    /\ pc = "decoded"
    /\ input_buffer = << ESC, 91, 49, 59, 50, 65 >>
    /\ events = << Key(UP, SHIFT) >>

RECURSIVE KeysOf(_)
KeysOf(tokens) ==
    IF tokens = << >> THEN << >> ELSE << KeyOf(Head(tokens)) >> \o KeysOf(Tail(tokens))

\* s starts with t
StartsWith(s, t) == Len(s) >= Len(t) /\ SubSeq(s, 1, Len(t)) = t

\* C17: when the poll is a run of complete sequences followed by something
\* unhandled (a byte >= 128, ESC and a byte >= 128, or ESC [ Z), the decoder
\* returns the events of the run in order and nothing for what follows, and
\* the poll after it is decoded as any other.  (An ESC before the byte >= 128
\* may or may not count as a plain escape.)
C17_UnhandledDropsRest ==
    Decoded =>
        \A run \in SeqsUpTo(SequenceTokens, MaxTokens - 1) :
            \A u \in { << 195 >>, << ESC, 195 >>, << ESC, 91, 90 >> } :
                StartsWith(input_buffer, Flatten(run) \o u) =>
                    \/ events = KeysOf(run)
                    \/ u[1] = ESC /\ Len(u) = 2 /\ events = KeysOf(run) \o << Key(ESC, NONE) >>

----------------------------------------------------------------------------
(* Properties of the shortcut dispatch *)

\* event and binding have the same modifiers and the same key, letters of a
\* modified key compared without regard to case
Matches(k, b) ==
    /\ k.control_states = b.control_states
    /\ (k.key = b.key) \/ (k.control_states # NONE /\ toupper(k.key) = toupper(b.key))

\* the shortcuts that event number n matches, as positions in the table
MatchesOf(n) == { j \in 1 .. Len(shortcuts) : Matches(events[n], shortcuts[j].binding) }

\* how often the callback of shortcut j was invoked for event number n
CallsFor(n, j) == Cardinality({ c \in 1 .. Len(calls) : calls[c] = [event |-> n, shortcut |-> j] })

\* the events that match no binding of the table, in their order
Survivors ==
    SelectSeq(events, LAMBDA k : \A j \in 1 .. Len(shortcuts) : ~Matches(k, shortcuts[j].binding))

\* C18: an event triggers the callback of the first binding in the table that
\* matches it and of no other, so at most one callback per event.
C18_FirstMatchOnly ==
    pc = "dispatched" =>
        \A c \in 1 .. Len(calls) :
            /\ calls[c].shortcut \in MatchesOf(calls[c].event)
            /\ \A j \in MatchesOf(calls[c].event) : calls[c].shortcut <= j

\* C19: what is left after the dispatch is the events that match no binding, in
\* their order and unchanged; an event that matches is removed and triggers the
\* callback of the first binding it matches exactly once, each occurrence on
\* its own; an event that matches nothing triggers nothing.
C19_UnmatchedSurvive ==
    pc = "dispatched" =>
        /\ key_events = Survivors
        /\ \A n \in 1 .. Len(events) :
              IF MatchesOf(n) = { }
              THEN \A j \in 1 .. Len(shortcuts) : CallsFor(n, j) = 0
              ELSE \E j \in MatchesOf(n) :
                      /\ \A other \in MatchesOf(n) : j <= other
                      /\ CallsFor(n, j) = 1

\* the same matching key came twice in one poll: both events are gone and the
\* callback ran twice
C19_Witness ==
    /\ pc = "dispatched"
    /\ Len(events) = 2
    /\ events[1] = events[2]
    /\ Len(shortcuts) = 1
    /\ MatchesOf(1) = { 1 }
    /\ key_events = << >>
    /\ calls = << [event |-> 1, shortcut |-> 1], [event |-> 2, shortcut |-> 1] >>

\* C20: every decoded event carries at most one modifier flag, a callback is
\* invoked only for an event whose modifiers equal the binding's, and so the
\* callback of a binding that names two or more flags is never invoked.
C20_MultiModifierNeverCalled ==
    /\ \A n \in 1 .. Len(events) : Cardinality(FlagsOf(events[n].control_states)) <= 1
    /\ \A c \in 1 .. Len(calls) :
          /\ events[calls[c].event].control_states = shortcuts[calls[c].shortcut].binding.control_states
          /\ Cardinality(FlagsOf(shortcuts[calls[c].shortcut].binding.control_states)) <= 1

\* ctrl-A was dispatched against a table with a binding for ctrl-shift-a,
\* whose callback was not invoked
C20_Witness ==
    /\ pc = "dispatched"
    /\ \E n \in 1 .. Len(events) : events[n] = Key(65, CTRL)
    /\ \E j \in 1 .. Len(shortcuts) :
          /\ shortcuts[j].binding = Key(97, CTRL + SHIFT)
          /\ \A c \in 1 .. Len(calls) : calls[c].shortcut # j

----------------------------------------------------------------------------
(* Properties of the transcoding *)

Presented == pc = "presented"

\* the frame the transcoding read, and its number of cells
Frame == before[OutputAddress]
FrameLength == request.screen_size.x * request.screen_size.y

\* the masked colours of the cell before cell k in row-major order; before the
\* first cell, the value 0 the encoder starts from
PrecedingForeground(k) == IF k = 0 THEN 0 ELSE MaskForeground(Frame[k - 1].colour)
PrecedingBackground(k) == IF k = 0 THEN 0 ELSE MaskBackground(Frame[k - 1].colour)

\* what the encoding holds for cell k when a colour command is written exactly
\* for each half that differs from the preceding cell's
CellBytes(k) ==
    (IF MaskForeground(Frame[k].colour) # PrecedingForeground(k)
     THEN << ESC, 91 >> \o to_string(toANSI(MaskForeground(Frame[k].colour))) \o << 109 >>
     ELSE << >>)
    \o (IF MaskBackground(Frame[k].colour) # PrecedingBackground(k)
        THEN << ESC, 91 >> \o to_string(toANSI(MaskBackground(Frame[k].colour))) \o << 109 >>
        ELSE << >>)
    \o CharacterBytes(Frame[k].character)

RECURSIVE FrameBytes(_)
FrameBytes(k) == IF k >= FrameLength THEN << >> ELSE CellBytes(k) \o FrameBytes(k + 1)

\* the number of colour commands in a byte sequence (no character of a frame
\* holds the byte ESC)
ColourCommands(bytes) == Cardinality({ k \in 1 .. Len(bytes) : bytes[k] = ESC })

\* every cell of a frame of at least one cell has colour c
Uniform(c) == FrameLength >= 1 /\ \A k \in 0 .. (FrameLength - 1) : Frame[k].colour = c

ChangeExactlyWhenDifferent == Presented => output = FrameBytes(0)

----------------------------------------------------------------------------
(* Properties of the text delivery *)

\* an event the focused component is to receive: no modifier or shift alone,
\* and a printable code, newline, tab, backspace, delete or an arrow
Deliverable(k) ==
    /\ k.control_states \in { NONE, SHIFT }
    /\ k.key \in (32 .. 127) \cup { NewLine, 9, 8, DeleteKey, UP, DOWN, LEFT, RIGHT }

\* the (code, modifiers) pairs of a sequence of events
PairsOf(keys) == [n \in 1 .. Len(keys) |-> [first |-> keys[n].key, second |-> keys[n].control_states]]

\* C21: what is passed to handleInput of the focused component is, in order,
\* the events that no shortcut consumed and that are deliverable; no other
\* event is passed.
C21_DeliverableTextInOrder ==
    (pc = "delivered" /\ focused_component # nullptr) =>
        delivered = PairsOf(SelectSeq(Survivors, Deliverable))

\* ctrl-A and shift-up came in one poll: only shift-up was delivered
C21_Witness ==
    /\ pc = "delivered"
    /\ focused_component # nullptr
    /\ events = << Key(65, CTRL), Key(UP, SHIFT) >>
    /\ delivered = << [first |-> UP, second |-> SHIFT] >>

----------------------------------------------------------------------------
(* Properties of Renderer::render *)

\* C22: the canvas handed to render of the root component has the size the
\* terminal reported for the frame, whatever the component's getMinSize and
\* getMaxSize return.
C22_RootFillsTerminal ==
    (Presented /\ root_component # nullptr) => lastRender.size = request.screen_size

----------------------------------------------------------------------------
(* Properties of the focus *)

FocusLength == Len(focusable_component_sequence)

\* the position the search of the last advanceFocus started from: the index
\* it found, taken modulo the length of the sequence as a 64-bit value
PreviousPosition ==
    IF request.focused_component_index \in 0 .. (FocusLength - 1)
    THEN request.focused_component_index
    ELSE SizeRem(request.focused_component_index, FocusLength)

\* the position d steps after the previous one, in cyclic order
PositionAfter(d) == (PreviousPosition + d) % FocusLength

\* the numbers of steps, from 1 to a full cycle, that lead to a focusable component
FocusableSteps ==
    { d \in 1 .. FocusLength : enabled[focusable_component_sequence[PositionAfter(d) + 1]] }

Advanced == pc = "advanced" /\ current_page # nullptr /\ FocusLength >= 1

\* C23: after advanceFocus on a non-empty sequence of distinct components the
\* index designates the first focusable component after the previous
\* position in cyclic order (the same component when no other is focusable)
\* and that component alone has focused = TRUE; when none is focusable no
\* component has focused = TRUE; the loop body ran at most once per position.
C23_FocusAdvancesCyclically ==
    Advanced =>
        /\ iterations >= 1
        /\ iterations <= FocusLength
        /\ IF FocusableSteps = { }
           THEN /\ focused_component_index = SIZE_MAX
                /\ \A c \in Components : ~focused[c]
           ELSE \E d \in FocusableSteps :
                   /\ \A e \in FocusableSteps : d <= e
                   /\ focused_component_index = PositionAfter(d)
                   /\ iterations = d
                   /\ \A c \in Components :
                         focused[c] <=> (c = focusable_component_sequence[PositionAfter(d) + 1])

\* the focus was on the last of three components, the first is not
\* focusable and the second is: the search wrapped round to the second
C23_Witness ==
    /\ Advanced
    /\ FocusLength = 3
    /\ request.focused_component_index = 2
    /\ ~enabled[focusable_component_sequence[1]]
    /\ enabled[focusable_component_sequence[2]]
    /\ focused_component_index = 1
    /\ focused[focusable_component_sequence[2]]
    /\ iterations = 2

----------------------------------------------------------------------------
(* Properties of the registry *)

\* the components a registry holds
Registered(registry) == { registry[n] : n \in DOMAIN registry }

\* the names of the exclude list that were registered when the call was made
Excluded == (DOMAIN before.components) \cap request.exclude_list

\* C24: after destroyAllComponents(exclude_list) the registry has no entry,
\* root is nullptr and the focus sequence is empty; every component that was
\* registered under a name outside exclude_list has been deleted; what is
\* returned is exactly the components that were registered under the names of
\* exclude_list, none of them nullptr or deleted.
C24_RegistryDestroyed ==
    pc = "destroyed" =>
        /\ DOMAIN components = { }
        /\ root = nullptr
        /\ focusable_component_sequence = << >>
        /\ \A n \in (DOMAIN before.components) \ request.exclude_list :
              before.components[n] # nullptr => before.components[n] \in deleted
        /\ Len(remainders) = Cardinality(Excluded)
        /\ Range(remainders) = { before.components[n] : n \in Excluded }
        /\ \A k \in 1 .. Len(remainders) :
              remainders[k] # nullptr /\ remainders[k] \notin deleted

\* the components reachable from the root through getAllChildren
Reachable == IF root = nullptr THEN { } ELSE Discover(<< root >>, { }, tree)

\* C25: ensureIntegrity (also as called by setRoot) completes; afterwards the
\* registry holds exactly the components reachable from root; a component that
\* was registered and is reachable keeps its names, a reachable component
\* that was not registered has a name that was not in use; with root nullptr
\* the registry is empty.
C25_RegistryMatchesTree ==
    /\ pc # "fault"
    /\ pc = "ensured" =>
          /\ Registered(components) = Reachable
          /\ \A n \in DOMAIN before.components :
                before.components[n] \in Reachable =>
                    n \in DOMAIN components /\ components[n] = before.components[n]
          /\ \A n \in DOMAIN components :
                n \notin DOMAIN before.components => n # EmptyName
          /\ root = nullptr => DOMAIN components = { }

----------------------------------------------------------------------------
(* Properties of the order of input *)

\* the events, by number, that no shortcut consumes and that are deliverable
TextEvents == { n \in 1 .. Len(events) : MatchesOf(n) = { } /\ Deliverable(events[n]) }

\* the number of the event that the d-th delivered pair stands for
TextEventOf(d) ==
    CHOOSE n \in TextEvents : Cardinality({ m \in TextEvents : m <= n }) = d

\* C26: when the callback of a shortcut runs, every text event that arrived
\* before the shortcut's event in the same poll has been handled by the
\* focused component; and a text event that arrived before the first shortcut
\* event is accepted by the component that had the focus when the poll began.
C26_InputOrderPreserved ==
    /\ focused_component # nullptr =>
          \A c \in 1 .. Len(calls) :
             Cardinality({ n \in TextEvents : n < calls[c].event }) <= Len(delivered)
    /\ (pc = "delivered" /\ focused_component # nullptr
          /\ before.focused[focused_component] /\ enabled[focused_component]) =>
          \A d \in 1 .. Len(delivered) :
             (\A c \in 1 .. Len(calls) : TextEventOf(d) < calls[c].event) => accepted[d]

----------------------------------------------------------------------------
(* Properties of the decoder's walk over the input buffer *)

\* C27: a poll made of two complete recognized sequences a and b, one after
\* the other, decodes to the events of a followed by the events of b: no byte
\* is skipped and none is decoded twice.
C27_ConcatenationDecodes ==
    Decoded =>
        \A a \in SequenceTokens, b \in SequenceTokens :
            input_buffer = a \o b =>
                events = getQueuedKeyEvents(a, 0) \o getQueuedKeyEvents(b, 0)

\* C28: for every poll of 1 to 64 bytes the decoder reads `buffer` only at
\* indices below 64, lookahead included, and reads linux_keymap only at
\* indices below 128.
C28_ReadsInBounds ==
    Len(input_buffer) \in 1 .. BufferSize =>
        /\ \A k \in reads.buffer : k < BufferSize
        /\ \A k \in reads.linux_keymap : k \in DOMAIN linux_keymap

----------------------------------------------------------------------------
(* Properties of the characters wrapText returns *)

\* C29: for every non-empty text and every max_width >= 1 the lines wrapText
\* returns, put one after the other, are the text without its line breaks: no
\* character is lost and none is duplicated.
C29_NoCharacterLostOrDuplicated ==
    (pc = "wrapped" /\ input_text # << >>) =>
        Flatten(result) = SelectSeq(input_text, LAMBDA c : c # NewLine)

----------------------------------------------------------------------------
(* Properties of the resize notification *)

\* C30: no resize notification is lost.  While a signal is unreported, either
\* the flag is set, so that a later call of isTerminalResized returns true, or
\* a call is in progress that will return true.
C30_NoResizeLost ==
    unreported > 0 =>
        \/ linux_resized_triggered
        \/ pc \in { "read", "cleared" } /\ resized

====
